---- MODULE Spec2Model ----
(***************************************************************************)
(* ESPNDataRepository (src/espn_data_reader.py): the base-table store and  *)
(* its cache, the partition resolver (_derive_season_league_code) and the  *)
(* partitioned file loader (_load_files_by_pattern).                       *)
(*                                                                         *)
(* Python strings are TLA+ strings, read character by character with       *)
(* SubSeq.  A pandas cell is a record [k, n, s]:                            *)
(*   k = "int"    an int64 cell of value n                                  *)
(*   k = "float"  a float64 cell n.s (n the integer part, s the digits     *)
(*                after the point, as str() prints them)                    *)
(*   k = "nan"    the missing value NaN                                     *)
(*   k = "str"    an object cell holding the Python string s               *)
(* A table (DataFrame) is [cols |-> sequence of column names,              *)
(* rows |-> sequence of records column -> cell].                            *)
(***************************************************************************)
EXTENDS Integers, Sequences, FiniteSets, TLC

VARIABLES
    autocache,  \* self.autocache
    cache,      \* self._cache: table name -> reference of the cached DataFrame, 0 for no entry
    heap,       \* the DataFrame objects: reference -> table, NoTable for no object
    held,       \* the DataFrames callers hold: slot -> a handle, NoHandle for none
    disk,       \* <root>/base_data: file name -> table, NoTable for no file
    folders,    \* <root>/<subfolder>: NoDir, or Dir(the set of its entries)
    ioCount,    \* table name -> number of pd.read_csv calls made for it
    firstLoad,  \* table name -> the table its first successful load read
    writes,     \* the number of times the dataset's producer rewrote a base_data file
    ret         \* what the last call returned or raised

vars == <<autocache, cache, heap, held, disk, folders, ioCount, firstLoad, writes, ret>>

None == "None"

\* ------------------------------------------------------------------
\* Python values

Digit == {"0", "1", "2", "3", "4", "5", "6", "7", "8", "9"}

IntCell(n) == [k |-> "int", n |-> n, s |-> ""]
FloatCell(n, fr) == [k |-> "float", n |-> n, s |-> fr]
StrCell(s) == [k |-> "str", n |-> 0, s |-> s]
NaN == [k |-> "nan", n |-> 0, s |-> ""]

CharAt(s, i) == SubSeq(s, i, i)

IsDigits(s) == Len(s) > 0 /\ \A i \in 1..Len(s) : CharAt(s, i) \in Digit

DigitVal(c) == CHOOSE d \in 0..9 : CharAt("0123456789", d + 1) = c

RECURSIVE DigitsToNat(_)
DigitsToNat(s) ==
    IF Len(s) = 0 THEN 0
    ELSE 10 * DigitsToNat(SubSeq(s, 1, Len(s) - 1)) + DigitVal(CharAt(s, Len(s)))

RECURSIVE NatToStr(_)
NatToStr(n) ==
    IF n < 10 THEN CharAt("0123456789", n + 1)
    ELSE NatToStr(n \div 10) \o CharAt("0123456789", (n % 10) + 1)

\* str(n) of a Python int
IntToStr(n) == IF n < 0 THEN "-" \o NatToStr(0 - n) ELSE NatToStr(n)

\* s.find(ch): the first position of ch in s, 0 when absent
Find(s, ch) ==
    IF \E i \in 1..Len(s) : CharAt(s, i) = ch
    THEN CHOOSE i \in 1..Len(s) :
            CharAt(s, i) = ch /\ \A j \in 1..(i - 1) : CharAt(s, j) # ch
    ELSE 0

\* s.startswith(p)
StartsWith(s, p) == Len(p) <= Len(s) /\ SubSeq(s, 1, Len(p)) = p

\* s.endswith(p)
EndsWith(s, p) == Len(p) <= Len(s) /\ SubSeq(s, Len(s) - Len(p) + 1, Len(s)) = p

\* str(x) of a cell value
PyStr(x) ==
    CASE x.k = "int" -> IntToStr(x.n)
      [] x.k = "float" -> IntToStr(x.n) \o "." \o x.s
      [] x.k = "nan" -> "nan"
      [] OTHER -> x.s

\* float(s) of a string: [sign] digits [. [digits]], [sign] . digits, or nan
\* (the strings of the model use no whitespace, exponent, underscore or inf).
\* The result is [ok, v]: v the float cell, ok = FALSE for ValueError.
FloatOfStr(s) ==
    LET signed == Len(s) > 0 /\ CharAt(s, 1) \in {"-", "+"}
        neg == Len(s) > 0 /\ CharAt(s, 1) = "-"
        body == IF signed THEN SubSeq(s, 2, Len(s)) ELSE s
        dot == Find(body, ".")
        ip == IF dot = 0 THEN body ELSE SubSeq(body, 1, dot - 1)
        fp == IF dot = 0 THEN "" ELSE SubSeq(body, dot + 1, Len(body))
        okNum == /\ ip = "" \/ IsDigits(ip)
                 /\ fp = "" \/ IsDigits(fp)
                 /\ ip # "" \/ fp # ""
        mag == IF ip = "" THEN 0 ELSE DigitsToNat(ip)
    IN  IF body = "nan" THEN [ok |-> TRUE, v |-> NaN]
        ELSE IF okNum
        THEN [ok |-> TRUE,
              v |-> FloatCell(IF neg THEN 0 - mag ELSE mag, IF fp = "" THEN "0" ELSE fp)]
        ELSE [ok |-> FALSE, v |-> NaN]

\* float(x)
PyFloat(x) ==
    CASE x.k = "int" -> [ok |-> TRUE, v |-> FloatCell(x.n, "0")]
      [] x.k = "float" -> [ok |-> TRUE, v |-> x]
      [] x.k = "nan" -> [ok |-> TRUE, v |-> NaN]
      [] OTHER -> FloatOfStr(x.s)

\* int(f) of a float: truncation; ValueError on NaN
IntOfFloat(f) == IF f.k = "nan" THEN [ok |-> FALSE, n |-> 0] ELSE [ok |-> TRUE, n |-> f.n]

\* int(s) of a string: [sign] digits; ValueError otherwise
IntOfStr(s) ==
    LET signed == Len(s) > 0 /\ CharAt(s, 1) \in {"-", "+"}
        neg == Len(s) > 0 /\ CharAt(s, 1) = "-"
        body == IF signed THEN SubSeq(s, 2, Len(s)) ELSE s
    IN  IF IsDigits(body)
        THEN [ok |-> TRUE, n |-> IF neg THEN 0 - DigitsToNat(body) ELSE DigitsToNat(body)]
        ELSE [ok |-> FALSE, n |-> 0]

\* _id_str: str(int(float(x))), and str(x) when that raises
IdStrNoFloat(x) == PyStr(x)
IdStr(x) ==
    LET f == PyFloat(x)
        i == IntOfFloat(f.v)
    IN  IF f.ok /\ i.ok THEN IntToStr(i.n) ELSE PyStr(x)

\* ------------------------------------------------------------------
\* Tables (pandas DataFrames)

NoneVal == [k |-> "none", n |-> 0, s |-> ""]

Table(cols, rows) == [cols |-> cols, rows |-> rows]

\* pd.DataFrame()
EmptyFrame == Table(<<>>, <<>>)

\* no table: a file that does not exist, a reference to no object
NoTable == [missing |-> TRUE]

\* no DataFrame held in a slot
NoHandle == [ref |-> 0]

\* a directory that does not exist, and one that holds the entries es
NoDir == [exists |-> FALSE, entries |-> {}]
Dir(es) == [exists |-> TRUE, entries |-> es]

SeqToSet(q) == {q[i] : i \in 1..Len(q)}

\* c in df.columns
HasCol(t, c) == c \in SeqToSet(t.cols)

\* df.empty
IsEmpty(t) == Len(t.rows) = 0 \/ Len(t.cols) = 0

\* the dtype pandas gives a column: object with any string, else float64 with
\* any float or NaN, else int64
ColDtype(t, c) ==
    IF \E i \in 1..Len(t.rows) : t.rows[i][c].k = "str" THEN "object"
    ELSE IF \E i \in 1..Len(t.rows) : t.rows[i][c].k \in {"float", "nan"} THEN "float64"
    ELSE "int64"

\* what pd.read_csv can produce: every column has one dtype
WellTyped(t) ==
    /\ \A i \in 1..Len(t.rows) : DOMAIN t.rows[i] = SeqToSet(t.cols)
    /\ \A c \in SeqToSet(t.cols) :
         LET ks == {t.rows[i][c].k : i \in 1..Len(t.rows)}
         IN  ks \subseteq {"int"} \/ ks \subseteq {"float", "nan"} \/ ks \subseteq {"str", "nan"}

\* hit.iloc[0]: the row as a Series.  With only numeric columns, one of them
\* float64, the Series is float64 and its int64 values become floats; with an
\* object column the Series is object and every value keeps its type.
IlocRow(t, i) ==
    LET dts == {ColDtype(t, c) : c \in SeqToSet(t.cols)}
        upcast == "object" \notin dts /\ "float64" \in dts
    IN  [c \in SeqToSet(t.cols) |->
            IF upcast /\ t.rows[i][c].k = "int"
            THEN FloatCell(t.rows[i][c].n, "0")
            ELSE t.rows[i][c]]

\* ------------------------------------------------------------------
\* Partition resolver: _derive_season_league_code

IdColumns == <<"eventId", "eventid", "gameId", "id", "matchId">>
LeagueColumns == <<"leagueId", "midsizeName", "league", "league_code">>

\* candidates = [c for c in [...] if c in fx.columns]
CandidateCols(fx) == SelectSeq(IdColumns, LAMBDA c : HasCol(fx, c))

\* fx.loc[fx[c].map(self._id_str) == eid]: the positions of the matching rows
Hits(fx, c, eid) == {i \in 1..Len(fx.rows) : IdStr(fx.rows[i][c]) = eid}

\* min(S) of a set of positions
First(S) == CHOOSE x \in S : \A y \in S : x <= y

NotFound == [found |-> FALSE, col |-> None, idx |-> 0]

\* the loop over the candidates from the j-th on: the first column with a hit,
\* and the first row of the hit
RECURSIVE FindRowFrom(_, _, _, _)
FindRowFrom(fx, cands, j, eid) ==
    IF j > Len(cands) THEN NotFound
    ELSE IF Hits(fx, cands[j], eid) = {} THEN FindRowFrom(fx, cands, j + 1, eid)
    ELSE [found |-> TRUE, col |-> cands[j], idx |-> First(Hits(fx, cands[j], eid))]

OrFirstRow(fx, f) ==
    IF f.found \/ Len(fx.rows) = 0 \/ Len(CandidateCols(fx)) = 0 THEN f
    ELSE [found |-> TRUE, col |-> CandidateCols(fx)[1], idx |-> 1]

FindRowOrFirst(fx, eid) == OrFirstRow(fx, FindRowFrom(fx, CandidateCols(fx), 1, eid))
FindRow(fx, eid) == FindRowFrom(fx, CandidateCols(fx), 1, eid)

\* sv.split("-")[0]
SplitFirst(sv) ==
    LET d == Find(sv, "-") IN IF d = 0 THEN sv ELSE SubSeq(sv, 1, d - 1)

\* pd.to_datetime(x).year: an ISO date "YYYY-MM-DD..." or a bare "YYYY" gives
\* its year, a number is nanoseconds since 1970, NaN gives NaT whose year is
\* NaN (int() of it raises), any other string of the model does not parse.
ToDatetimeYear(x) ==
    CASE x.k \in {"int", "float"} -> [ok |-> TRUE, n |-> 1970]
      [] x.k = "str" ->
            IF \/ Len(x.s) = 4 /\ IsDigits(x.s)
               \/ /\ Len(x.s) >= 10
                  /\ IsDigits(SubSeq(x.s, 1, 4)) /\ CharAt(x.s, 5) = "-"
                  /\ IsDigits(SubSeq(x.s, 6, 7)) /\ CharAt(x.s, 8) = "-"
                  /\ IsDigits(SubSeq(x.s, 9, 10))
            THEN [ok |-> TRUE, n |-> DigitsToNat(SubSeq(x.s, 1, 4))]
            ELSE [ok |-> FALSE, n |-> 0]
      [] OTHER -> [ok |-> FALSE, n |-> 0]

\* int(self._id_str(row["seasonYear"]))
FromSeasonYear(x) == IntOfStr(IdStr(x))

\* int(str(row["season"]).split("-")[0])
FromSeason(x) == IntOfStr(SplitFirst(PyStr(x)))

\* int(pd.to_datetime(row["date"]).year)
FromDate(x) == ToDatetimeYear(x)

SeasonResult(r) == [ok |-> r.ok, exc |-> IF r.ok THEN None ELSE "ValueError", n |-> r.n]

\* row["date"] of a table with no date column: KeyError
NoSeasonColumn == [ok |-> FALSE, exc |-> "KeyError", n |-> 0]

\* the first source that gives a value decides
ByValue(fx, a, b, c) ==
    IF HasCol(fx, "seasonYear") /\ a.ok THEN a
    ELSE IF HasCol(fx, "season") /\ b.ok THEN b
    ELSE IF HasCol(fx, "date") THEN c
    ELSE NoSeasonColumn

\* season_year: the first column that is present decides; [ok, exc, n]
SeasonYearByValue(fx, row) ==
    ByValue(fx,
            IF HasCol(fx, "seasonYear")
            THEN SeasonResult(FromSeasonYear(row["seasonYear"])) ELSE NoSeasonColumn,
            IF HasCol(fx, "season")
            THEN SeasonResult(FromSeason(row["season"])) ELSE NoSeasonColumn,
            IF HasCol(fx, "date")
            THEN SeasonResult(FromDate(row["date"])) ELSE NoSeasonColumn)
SeasonYear(fx, row) ==
    IF HasCol(fx, "seasonYear") THEN SeasonResult(FromSeasonYear(row["seasonYear"]))
    ELSE IF HasCol(fx, "season") THEN SeasonResult(FromSeason(row["season"]))
    ELSE IF HasCol(fx, "date") THEN SeasonResult(FromDate(row["date"]))
    ELSE NoSeasonColumn

\* the first of the columns cols that fx has, None when it has none
FirstPresent(fx, cols, j) ==
    IF \E i \in j..Len(cols) : HasCol(fx, cols[i])
    THEN cols[First({i \in j..Len(cols) : HasCol(fx, cols[i])})]
    ELSE None

\* str(row[c]), None for no column
StrOrNone(row, c) == IF c = None THEN NoneVal ELSE StrCell(PyStr(row[c]))

\* league_code: str() of the first present column, None when there is none
LeagueCodeThree(fx, row) ==
    StrOrNone(row, FirstPresent(fx, SubSeq(LeagueColumns, 1, 3), 1))
LeagueCode(fx, row) == StrOrNone(row, FirstPresent(fx, LeagueColumns, 1))

Raised(exc, site, f) ==
    [ok |-> FALSE, exc |-> exc, site |-> site, season_year |-> 0,
     league_code |-> NoneVal, col |-> f.col, idx |-> f.idx]

\* return season_year, league_code; or the exception of the season derivation
Derived(f, sy, lc) ==
    IF ~sy.ok THEN Raised(sy.exc, "SeasonUndetermined", f)
    ELSE [ok |-> TRUE, exc |-> None, site |-> None, season_year |-> sy.n,
          league_code |-> lc, col |-> f.col, idx |-> f.idx]

\* the derivation from the row found
DeriveFromRow(fx, f, row) == Derived(f, SeasonYear(fx, row), LeagueCode(fx, row))

\* raise KeyError if row is None, else the derivation from hit.iloc[0]
DeriveFromHit(fx, f) ==
    IF ~f.found THEN Raised("KeyError", "RecordNotFound", f)
    ELSE DeriveFromRow(fx, f, IlocRow(fx, f.idx))

\* _derive_season_league_code on the fixtures table fx
DeriveSeasonLeagueCode(fx, event_id) == DeriveFromHit(fx, FindRow(fx, IdStr(event_id)))

\* ------------------------------------------------------------------
\* Base table store: _load_base_table and the cache

BASE_TABLES ==
    [fixtures |-> "fixtures.csv", teams |-> "teams.csv", players |-> "players.csv",
     leagues |-> "leagues.csv", venues |-> "venues.csv", team_stats |-> "teamStats.csv",
     standings |-> "standings.csv", team_roster |-> "teamRoster.csv",
     status |-> "status.csv"]

\* bounds of the model
MaxHeld == 2
MaxReads == 1
MaxWrites == 1

\* the table names the callers of the model ask for: two registered, one not
LoadNames == {"fixtures", "teams", "bogus"}

\* the names self._cache can hold in the model
CacheNames == LoadNames \cup {"players"}

Slots == 1..MaxHeld
\* the references of the model: one per cached table, one per held table, and
\* the copies a call makes before it returns
Refs == 1..(Cardinality(CacheNames) + MaxHeld + 2)

\* the store a call works on: the repository's fields, the objects, the counters
Store == [autocache |-> autocache, cache |-> cache, heap |-> heap, disk |-> disk,
          ioCount |-> ioCount, firstLoad |-> firstLoad]

\* a reference no object has yet
NewRef(h) == CHOOSE r \in Refs : h[r] = NoTable /\ \A q \in Refs : h[q] = NoTable => r <= q

\* DataFrame.copy(): a new object with the same content
DfCopyAlias(h, r) == [ref |-> r, heap |-> h]
DfCopy(h, r) == [ref |-> NewRef(h), heap |-> [h EXCEPT ![NewRef(h)] = h[r]]]

\* name in self._cache
CacheHitNever(c, name) == FALSE
CacheHit(c, name) == c[name] # 0

\* if self.autocache: self._cache[name] = df
CacheWriteEvict(c, ac, name, ref) ==
    IF ac THEN [n \in DOMAIN c |-> IF n = name THEN ref ELSE 0] ELSE c
CacheWriteAlways(c, ac, name, ref) == [c EXCEPT ![name] = ref]
CacheWrite(c, ac, name, ref) == IF ac THEN [c EXCEPT ![name] = ref] ELSE c

LoadFailedFlush(st, exc) ==
    [st |-> [st EXCEPT !.cache = [n \in DOMAIN st.cache |-> 0]],
     ok |-> FALSE, exc |-> exc, ref |-> 0, reads |-> 0]
LoadFailed(st, exc) == [st |-> st, ok |-> FALSE, exc |-> exc, ref |-> 0, reads |-> 0]

\* _load_base_table(name) on the store st: the new store, and the reference of
\* the returned DataFrame or the exception raised
LoadBase(st, name) ==
    IF CacheHit(st.cache, name)
    THEN LET cp == DfCopy(st.heap, st.cache[name])
         IN  [st |-> [st EXCEPT !.heap = cp.heap],
              ok |-> TRUE, exc |-> None, ref |-> cp.ref, reads |-> 0]
    ELSE IF name \notin DOMAIN BASE_TABLES
    THEN LoadFailed(st, "KeyError")
    ELSE IF st.disk[BASE_TABLES[name]] = NoTable
    THEN LoadFailed(st, "FileNotFoundError")
    ELSE LET df == NewRef(st.heap)
             h1 == [st.heap EXCEPT ![df] = st.disk[BASE_TABLES[name]]]
             cp == DfCopy(h1, df)
         IN  [st |-> [st EXCEPT
                        !.heap = cp.heap,
                        !.cache = CacheWrite(st.cache, st.autocache, name, df),
                        !.ioCount = [@ EXCEPT ![name] = @ + 1],
                        !.firstLoad = [@ EXCEPT ![name] =
                                          IF @ = NoTable THEN h1[df] ELSE @]],
              ok |-> TRUE, exc |-> None, ref |-> cp.ref, reads |-> 1]

\* the objects nothing refers to any more are gone
Collect(h, c, hd) ==
    [r \in Refs |->
        IF \/ \E n \in DOMAIN c : c[n] = r
           \/ \E sl \in Slots : hd[sl].ref = r
        THEN h[r] ELSE NoTable]

FreeSlot(hd) == CHOOSE sl \in Slots : hd[sl] = NoHandle /\ \A q \in Slots : hd[q] = NoHandle => sl <= q

\* a caller calls fixtures(), teams(), ... and keeps the DataFrame it gets
LoadBaseTable(name) ==
    /\ \E sl \in Slots : held[sl] = NoHandle
    /\ cache[name] # 0 \/ ioCount[name] < MaxReads
    /\ LET r == LoadBase(Store, name)
           sl == FreeSlot(held)
           hd == IF r.ok
                 THEN [held EXCEPT ![sl] = [ref |-> r.ref, name |-> name,
                                            orig |-> r.st.heap[r.ref], edited |-> FALSE]]
                 ELSE held
       IN  /\ cache' = r.st.cache
           /\ held' = hd
           /\ heap' = Collect(r.st.heap, r.st.cache, hd)
           /\ ioCount' = r.st.ioCount
           /\ firstLoad' = r.st.firstLoad
           /\ ret' = [op |-> "load", name |-> name, ok |-> r.ok, exc |-> r.exc,
                      val |-> IF r.ok THEN r.st.heap[r.ref] ELSE NoTable,
                      reads |-> r.reads]
    /\ UNCHANGED <<autocache, disk, folders, writes>>

\* df["edited"] = 0 on a DataFrame: an edit in place
EditTable(t) ==
    Table(Append(t.cols, "edited"),
          [i \in 1..Len(t.rows) |->
              [c \in DOMAIN t.rows[i] \cup {"edited"} |->
                  IF c = "edited" THEN IntCell(0) ELSE t.rows[i][c]]])

\* a caller edits in place a DataFrame it holds
CallerEdit(sl) ==
    /\ held[sl] # NoHandle
    /\ ~held[sl].edited
    /\ heap' = [heap EXCEPT ![held[sl].ref] = EditTable(@)]
    /\ held' = [held EXCEPT ![sl].edited = TRUE]
    /\ UNCHANGED <<autocache, cache, disk, folders, ioCount, firstLoad, writes, ret>>

\* a caller lets go of a DataFrame
CallerDrop(sl) ==
    /\ held[sl] # NoHandle
    /\ held' = [held EXCEPT ![sl] = NoHandle]
    /\ heap' = Collect(heap, cache, held')
    /\ UNCHANGED <<autocache, cache, disk, folders, ioCount, firstLoad, writes, ret>>

\* what resolve returns or raises, on the fixtures table fx and the derivation d
ResolveReturn(event_id, fx, d, reads) ==
    [op |-> "resolve", arg |-> event_id, fx |-> fx, ok |-> d.ok,
     exc |-> d.exc, site |-> d.site, season_year |-> d.season_year,
     league_code |-> d.league_code, col |-> d.col, idx |-> d.idx, reads |-> reads]

\* the derivation on the content of the copied DataFrame
ResolveOn(event_id, fx, reads) ==
    ResolveReturn(event_id, fx, DeriveSeasonLeagueCode(fx, event_id), reads)

\* the content of a copy
Content(cp) == cp.heap[cp.ref]

\* the load of fixtures failed: its exception goes to the caller
ResolveFailed(event_id, r) ==
    [op |-> "resolve", arg |-> event_id, fx |-> NoTable, ok |-> FALSE,
     exc |-> r.exc, site |-> "SourceFileMissing", season_year |-> 0,
     league_code |-> NoneVal, col |-> None, idx |-> 0, reads |-> r.reads]

\* the rest of the call once self.fixtures() has returned r
ResolveLoaded(event_id, r) ==
    /\ cache' = r.st.cache
    /\ heap' = Collect(r.st.heap, r.st.cache, held)
    /\ ioCount' = r.st.ioCount
    /\ firstLoad' = r.st.firstLoad
    /\ ret' = IF r.ok
              THEN ResolveOn(event_id, Content(DfCopy(r.st.heap, r.ref)), r.reads)
              ELSE ResolveFailed(event_id, r)

\* _derive_season_league_code(event_id): self.fixtures().copy(), then the
\* derivation; the two temporary DataFrames are dropped on return
Resolve(event_id) ==
    /\ cache["fixtures"] # 0 \/ ioCount["fixtures"] < MaxReads
    /\ ResolveLoaded(event_id, LoadBase(Store, "fixtures"))
    /\ UNCHANGED <<autocache, held, disk, folders, writes>>

\* ------------------------------------------------------------------
\* Partitioned file loader: _load_files_by_pattern

\* what a directory entry holds: a CSV text that parses to a table, bytes
\* that parse as nothing, or a ZIP archive with its members in archive order
CsvData(t) == [t |-> "csv", table |-> t, members |-> <<>>]
BadData == [t |-> "bad", table |-> EmptyFrame, members |-> <<>>]
ZipData(ms) == [t |-> "zip", table |-> EmptyFrame, members |-> ms]

Entry(name, data) == [name |-> name, data |-> data]

\* str.lower(), on the ASCII letters
LowerChar ==
    [c \in {CharAt("ABCDEFGHIJKLMNOPQRSTUVWXYZ", i) : i \in 1..26} |->
        CharAt("abcdefghijklmnopqrstuvwxyz", Find("ABCDEFGHIJKLMNOPQRSTUVWXYZ", c))]

RECURSIVE Lower(_)
Lower(s) ==
    IF Len(s) = 0 THEN ""
    ELSE LET c == CharAt(s, 1)
         IN  (IF c \in DOMAIN LowerChar THEN LowerChar[c] ELSE c)
             \o Lower(SubSeq(s, 2, Len(s)))

\* fname.startswith(pattern)
EligibleAny(fname, pattern) == TRUE
Eligible(fname, pattern) == StartsWith(fname, pattern)

\* pd.read_csv of a file or of an archive member
ReadCsv(name, data) ==
    IF data.t = "csv"
    THEN [ok |-> TRUE, exc |-> None, file |-> None, frames |-> <<data.table>>]
    ELSE [ok |-> FALSE, exc |-> "ParserError", file |-> name, frames |-> <<>>]

\* the loop over zf.namelist(): every .csv member is read, in archive order
RECURSIVE ReadMembers(_, _)
\* data_frames.append(pd.read_csv(f)), or the exception it raised
AppendMember(ms, acc, r) == IF r.ok THEN ReadMembers(Tail(ms), acc \o r.frames) ELSE r
ReadMembers(ms, acc) ==
    IF Len(ms) = 0 THEN [ok |-> TRUE, exc |-> None, file |-> None, frames |-> acc]
    ELSE IF ~EndsWith(Lower(ms[1].name), ".csv") THEN ReadMembers(Tail(ms), acc)
    ELSE AppendMember(ms, acc, ReadCsv(ms[1].name, ms[1].data))

\* the body of the loop for one eligible entry
ReadEntryCsvOnly(e) ==
    IF EndsWith(Lower(e.name), ".csv") THEN ReadCsv(e.name, e.data)
    ELSE [ok |-> TRUE, exc |-> None, file |-> None, frames |-> <<>>]
ReadEntry(e) ==
    IF EndsWith(Lower(e.name), ".csv") THEN ReadCsv(e.name, e.data)
    ELSE IF EndsWith(Lower(e.name), ".zip")
    THEN IF e.data.t = "zip" THEN ReadMembers(e.data.members, <<>>)
         ELSE [ok |-> FALSE, exc |-> "BadZipFile", file |-> e.name, frames |-> <<>>]
    ELSE [ok |-> TRUE, exc |-> None, file |-> None, frames |-> <<>>]

\* for fname in os.listdir(folder), in the order the listing gives
RECURSIVE ReadListing(_, _, _, _)
\* the frames of one entry are appended, or its exception ends the loop
AppendEntrySkipBad(entries, order, pattern, acc, r) ==
    ReadListing(entries, Tail(order), pattern, IF r.ok THEN acc \o r.frames ELSE acc)
AppendEntry(entries, order, pattern, acc, r) ==
    IF r.ok THEN ReadListing(entries, Tail(order), pattern, acc \o r.frames) ELSE r
ReadListing(entries, order, pattern, acc) ==
    IF Len(order) = 0 THEN [ok |-> TRUE, exc |-> None, file |-> None, frames |-> acc]
    ELSE IF ~Eligible(order[1], pattern) THEN ReadListing(entries, Tail(order), pattern, acc)
    ELSE AppendEntry(entries, order, pattern, acc,
                     ReadEntry(CHOOSE x \in entries : x.name = order[1]))

\* the columns of pd.concat: the union, in the order of first appearance
RECURSIVE UnionCols(_, _)
UnionCols(frames, acc) ==
    IF Len(frames) = 0 THEN acc
    ELSE UnionCols(Tail(frames),
                   acc \o SelectSeq(frames[1].cols, LAMBDA c : c \notin SeqToSet(acc)))

RECURSIVE StackRows(_, _)
StackRows(frames, cols) ==
    IF Len(frames) = 0 THEN <<>>
    ELSE [i \in 1..Len(frames[1].rows) |->
             [c \in SeqToSet(cols) |->
                 IF c \in DOMAIN frames[1].rows[i] THEN frames[1].rows[i][c] ELSE NaN]]
         \o StackRows(Tail(frames), cols)

\* the common dtype of a concatenated column: an int64 value in a column that
\* also holds a float or a NaN, and no string, becomes a float
Upcast(t) ==
    Table(t.cols,
          [i \in 1..Len(t.rows) |->
              [c \in SeqToSet(t.cols) |->
                  IF t.rows[i][c].k = "int" /\ ColDtype(t, c) = "float64"
                  THEN FloatCell(t.rows[i][c].n, "0")
                  ELSE t.rows[i][c]]])

\* pd.concat(data_frames, ignore_index=True)
ConcatOn(frames, cols) == Upcast(Table(cols, StackRows(frames, cols)))
ConcatCommonCols(frames) ==
    ConcatOn(frames, SelectSeq(UnionCols(frames, <<>>),
                               LAMBDA c : \A k \in 1..Len(frames) : HasCol(frames[k], c)))
Concat(frames) == ConcatOn(frames, UnionCols(frames, <<>>))

\* what the caller gets: the DataFrame, or the exception of pd.read_csv or
\* zipfile.ZipFile as raised (the code wraps nothing; the message of a parser
\* error or of BadZipFile holds no file name).  `file` is the file that was
\* being read, `excFile` the file name the exception carries.
Loaded(r, val) ==
    [ok |-> r.ok, exc |-> r.exc, site |-> IF r.ok THEN None ELSE "PartitionFileCorrupt",
     file |-> r.file, excFile |-> None, val |-> val, frames |-> r.frames]

\* pd.concat(data_frames, ignore_index=True) if data_frames else pd.DataFrame()
ConcatOrEmpty(r) ==
    IF r.ok /\ Len(r.frames) > 0 THEN Loaded(r, Concat(r.frames))
    ELSE Loaded(r, EmptyFrame)

\* _load_files_by_pattern(subfolder, pattern), os.listdir giving `order`
LoadFilesByPattern(fs, subfolder, pattern, order) ==
    IF ~fs[subfolder].exists
    THEN [ok |-> FALSE, exc |-> "FileNotFoundError", site |-> "CategoryDirectoryMissing",
          file |-> None, excFile |-> subfolder, val |-> EmptyFrame, frames |-> <<>>]
    ELSE ConcatOrEmpty(ReadListing(fs[subfolder].entries, order, pattern, <<>>))

\* the orders os.listdir may give the entries of a directory in
ListDirOrders(dir) ==
    IF ~dir.exists THEN {<<>>}
    ELSE LET names == {e.name : e \in dir.entries}
         IN  {q \in [1..Cardinality(names) -> names] :
                 \A i, j \in 1..Cardinality(names) : q[i] = q[j] => i = j}

\* what the call returns or raises
PartitionReturn(subfolder, pattern, order, r) ==
    [op |-> "loadPartition", subfolder |-> subfolder, pattern |-> pattern,
     order |-> order, ok |-> r.ok, exc |-> r.exc, site |-> r.site, file |-> r.file,
     excFile |-> r.excFile, val |-> r.val, frames |-> r.frames]

\* a caller loads a partition
LoadPartition(subfolder, pattern) ==
    /\ \E order \in ListDirOrders(folders[subfolder]) :
          ret' = PartitionReturn(subfolder, pattern, order,
                                 LoadFilesByPattern(folders, subfolder, pattern, order))
    /\ UNCHANGED <<autocache, cache, heap, held, disk, folders, ioCount, firstLoad, writes>>

\* ------------------------------------------------------------------
\* Detail accessors: commentary_for_event ... plays_for_event

\* the five accessors: the name used in the file prefix -> the subfolder read
CATEGORIES ==
    [commentary |-> "commentary_data", keyEvents |-> "keyEvents_data",
     lineup |-> "lineup_data", playerStats |-> "playerStats_data",
     plays |-> "plays_data"]

\* a == b of two Python values, as an element of df[col] == x: numbers compare
\* by value whatever their type, strings with strings, NaN equals nothing,
\* and a number never equals a string
PyEq(a, b) ==
    CASE a.k \in {"int", "float"} /\ b.k \in {"int", "float"} ->
            a.n = b.n /\ (IF a.k = "float" THEN a.s ELSE "0") = (IF b.k = "float" THEN b.s ELSE "0")
      [] a.k = "str" /\ b.k = "str" -> a.s = b.s
      [] OTHER -> FALSE

\* df[df["eventId"] == event_id]
EventRows(df, event_id) ==
    Table(df.cols, SelectSeq(df.rows, LAMBDA row : PyEq(row["eventId"], event_id)))

\* if not df.empty and "eventId" in df.columns: df = df[...]; reset_index
FilterAll(df, event_id) == df
FilterEventStrict(df, event_id) ==
    IF HasCol(df, "eventId") THEN EventRows(df, event_id) ELSE Table(df.cols, <<>>)
FilterEvent(df, event_id) ==
    IF ~IsEmpty(df) /\ HasCol(df, "eventId") THEN EventRows(df, event_id) ELSE df

\* f"{category}_{season_year}_{league_code}": None is printed as None
PrefixOf(cat, d) ==
    cat \o "_" \o IntToStr(d.season_year) \o "_"
        \o (IF d.league_code = NoneVal THEN "None" ELSE d.league_code.s)

\* an accessor raised exc before or in the loader
DetailRaised(st, exc, site, prefix, calls) ==
    [st |-> st, ok |-> FALSE, exc |-> exc, site |-> site, val |-> EmptyFrame,
     loaded |-> NoTable, prefix |-> prefix, loaderCalls |-> calls]

\* the accessor after the loader returned l
DetailLoaded(st, event_id, prefix, l) ==
    IF ~l.ok THEN DetailRaised(st, l.exc, l.site, prefix, 1)
    ELSE [st |-> st, ok |-> TRUE, exc |-> None, site |-> None,
          val |-> FilterEvent(l.val, event_id), loaded |-> l.val,
          prefix |-> prefix, loaderCalls |-> 1]

\* the accessor after the resolver returned or raised d
DetailEmptyOnFailure(st, fs, cat, event_id, order, d) ==
    IF ~d.ok
    THEN [st |-> st, ok |-> TRUE, exc |-> None, site |-> None, val |-> EmptyFrame,
          loaded |-> NoTable, prefix |-> None, loaderCalls |-> 0]
    ELSE DetailLoaded(st, event_id, PrefixOf(cat, d),
                      LoadFilesByPattern(fs, CATEGORIES[cat], PrefixOf(cat, d), order))
DetailResolved(st, fs, cat, event_id, order, d) ==
    IF ~d.ok THEN DetailRaised(st, d.exc, d.site, None, 0)
    ELSE DetailLoaded(st, event_id, PrefixOf(cat, d),
                      LoadFilesByPattern(fs, CATEGORIES[cat], PrefixOf(cat, d), order))

\* self._derive_season_league_code(event_id) once self.fixtures() returned r
DetailFixtures(fs, cat, event_id, order, r) ==
    IF ~r.ok THEN DetailRaised(r.st, r.exc, "SourceFileMissing", None, 0)
    ELSE DetailResolved(r.st, fs, cat, event_id, order,
                        DeriveSeasonLeagueCode(Content(DfCopy(r.st.heap, r.ref)), event_id))

\* <category>_for_event(event_id) on the store st, os.listdir giving `order`
DetailForEvent(st, fs, cat, event_id, order) ==
    DetailFixtures(fs, cat, event_id, order, LoadBase(st, "fixtures"))

\* what the call returns or raises
DetailReturn(cat, event_id, order, a) ==
    [op |-> "detail", cat |-> cat, arg |-> event_id, order |-> order, ok |-> a.ok,
     exc |-> a.exc, site |-> a.site, val |-> a.val, loaded |-> a.loaded,
     prefix |-> a.prefix, loaderCalls |-> a.loaderCalls]

\* the store after the call: the temporary DataFrames are gone
DetailDone(cat, event_id, order, a) ==
    /\ cache' = a.st.cache
    /\ heap' = Collect(a.st.heap, a.st.cache, held)
    /\ ioCount' = a.st.ioCount
    /\ firstLoad' = a.st.firstLoad
    /\ ret' = DetailReturn(cat, event_id, order, a)

\* a caller calls one of the five accessors
DetailAccessor(cat, event_id) ==
    /\ cache["fixtures"] # 0 \/ ioCount["fixtures"] < MaxReads
    /\ \E order \in ListDirOrders(folders[CATEGORIES[cat]]) :
          DetailDone(cat, event_id, order,
                     DetailForEvent(Store, folders, cat, event_id, order))
    /\ UNCHANGED <<autocache, held, disk, folders, writes>>

\* ------------------------------------------------------------------
\* merge_player_stats

\* df[c] = df[c].astype(str): str(x) of every cell of the column, NaN -> "nan"
AsTypeStr(df, c) ==
    Table(df.cols, [i \in 1..Len(df.rows) |->
                        [df.rows[i] EXCEPT ![c] = StrCell(PyStr(df.rows[i][c]))]])

\* if c in df.columns: df[c] = df[c].astype(str)
KeyAsStr(df, c) == IF HasCol(df, c) THEN AsTypeStr(df, c) ELSE df

\* for c in ("athleteId", "teamId", "eventId"): ...
KeysAsStr(df) == KeyAsStr(KeyAsStr(KeyAsStr(df, "athleteId"), "teamId"), "eventId")

\* [c for c in wanted if c in df.columns]
Present(wanted, df) == SelectSeq(wanted, LAMBDA c : HasCol(df, c))

\* df[cols]
Project(df, cols) ==
    Table(cols, [i \in 1..Len(df.rows) |-> [c \in SeqToSet(cols) |-> df.rows[i][c]]])

\* df.rename(columns=names): names is a function from old names to new ones
NewName(names, c) == IF c \in DOMAIN names THEN names[c] ELSE c
OldName(names, cols, d) == CHOOSE c \in SeqToSet(cols) : NewName(names, c) = d
Rename(df, names) ==
    Table([j \in 1..Len(df.cols) |-> NewName(names, df.cols[j])],
          [i \in 1..Len(df.rows) |->
              [d \in {NewName(names, c) : c \in SeqToSet(df.cols)} |->
                  df.rows[i][OldName(names, df.cols, d)]]])

\* df.drop(columns=[c], errors="ignore")
DropCol(df, c) ==
    Table(SelectSeq(df.cols, LAMBDA x : x # c),
          [i \in 1..Len(df.rows) |-> [x \in SeqToSet(df.cols) \ {c} |-> df.rows[i][x]]])

\* df.drop_duplicates(): the first of equal rows stays
DropDuplicates(df) ==
    LET firsts == {i \in 1..Len(df.rows) : \A j \in 1..(i - 1) : df.rows[j] # df.rows[i]}
        RECURSIVE Keep(_)
        Keep(i) == IF i > Len(df.rows) THEN <<>>
                   ELSE (IF i \in firsts THEN <<df.rows[i]>> ELSE <<>>) \o Keep(i + 1)
    IN  Table(df.cols, Keep(1))

\* a row of left with the columns of a row of right, or with NaN in them
Joined(l, r, extra) == [c \in DOMAIN l \cup extra |-> IF c \in DOMAIN l THEN l[c] ELSE r[c]]
Unmatched(l, extra) == [c \in DOMAIN l \cup extra |-> IF c \in DOMAIN l THEN l[c] ELSE NaN]

\* the rows a left merge makes of one left row: one per right row with the
\* same key, in the order of right, or one with NaN when there is none
MatchesOf(l, rrows, key, extra) ==
    IF \E i \in 1..Len(rrows) : rrows[i][key] = l[key]
    THEN LET ms == SelectSeq(rrows, LAMBDA r : r[key] = l[key])
         IN  [i \in 1..Len(ms) |-> Joined(l, ms[i], extra)]
    ELSE <<Unmatched(l, extra)>>

RECURSIVE MergeRows(_, _, _, _)
MergeRows(lrows, rrows, key, extra) ==
    IF lrows = <<>> THEN <<>>
    ELSE MatchesOf(Head(lrows), rrows, key, extra)
            \o MergeRows(Tail(lrows), rrows, key, extra)

\* left.merge(right, on=key, how="left") of two tables whose key columns hold
\* strings and that share no other column (the tables of the model share none,
\* so no _x/_y suffix is made)
LeftMerge(left, right, key) ==
    Table(left.cols \o SelectSeq(right.cols, LAMBDA c : c # key),
          MergeRows(left.rows, right.rows, key, SeqToSet(right.cols) \ {key}))

PLAYER_COLUMNS == <<"athleteId", "shortName", "displayName", "nationality">>
PLAYER_NAMES ==
    [shortName |-> "playerShortName", displayName |-> "playerName",
     nationality |-> "playerNationality"]
TEAM_COLUMNS == <<"teamId", "displayName", "shortName", "abbrev">>
TEAM_NAMES ==
    [displayName |-> "teamName", shortName |-> "teamShortName", abbrev |-> "teamAbbrev"]
POSITION_COLUMNS ==
    <<"position", "positionName", "playerPosition", "positionFullName", "positionAbbr">>

\* players[keep_player_cols].rename(...), athleteId as strings
PlayersFrame(players) ==
    Rename(Project(KeyAsStr(players, "athleteId"), Present(PLAYER_COLUMNS, players)),
           PLAYER_NAMES)

\* teams[keep_team_cols].rename(...), teamId as strings
TeamsFrame(teams) ==
    Rename(Project(AsTypeStr(teams, "teamId"), Present(TEAM_COLUMNS, teams)), TEAM_NAMES)

\* lineup[["athleteId", pos_col]].drop_duplicates(), athleteId as strings
LineupFrame(lineup, pos_col) ==
    DropDuplicates(Project(AsTypeStr(lineup, "athleteId"), <<"athleteId", pos_col>>))

\* next((c for c in [...] if c in lineup.columns), None)
PosCol(lineup) ==
    IF Present(POSITION_COLUMNS, lineup) = <<>> THEN None
    ELSE Present(POSITION_COLUMNS, lineup)[1]

\* the temporaries of a finished step are gone
Sweep(st) == [st EXCEPT !.heap = Collect(st.heap, st.cache, held)]

\* the lineup call as merge_player_stats saw it
NoLineupCall == [called |-> FALSE, ok |-> TRUE, exc |-> None, site |-> None, val |-> NoTable]
LineupCall(a) ==
    [called |-> TRUE, ok |-> a.ok, exc |-> a.exc, site |-> a.site,
     val |-> IF a.ok THEN a.val ELSE NoTable]

\* merge_player_stats raised exc in `step`; `enriched` is the table the
\* players and teams steps made, NoTable before they ended
EnrichRaised(st, exc, site, step, enriched, lineup) ==
    [st |-> st, ok |-> FALSE, exc |-> exc, site |-> site, step |-> step,
     val |-> NoTable, enriched |-> enriched, lineup |-> lineup]

\* return out
EnrichReturned(st, out, step, enriched, lineup) ==
    [st |-> st, ok |-> TRUE, exc |-> None, site |-> None, step |-> step,
     val |-> out, enriched |-> enriched, lineup |-> lineup]

\* out.merge(lineup, on="athleteId", how="left").rename(columns={pos_col: "position"})
WithPosition(out, lineup, pos_col) ==
    Rename(LeftMerge(out, LineupFrame(lineup, pos_col), "athleteId"),
           [c \in {pos_col} |-> "position"])

\* the position step once lineup_for_event returned or raised a
EnrichLineupStrict(out, a) ==
    IF ~a.ok
    THEN EnrichRaised(Sweep(a.st), a.exc, a.site, "position", out, LineupCall(a))
    ELSE IF IsEmpty(a.val) \/ ~HasCol(a.val, "athleteId") \/ PosCol(a.val) = None
    THEN EnrichRaised(Sweep(a.st), "KeyError", "MergeKeyMissing", "position", out,
                      LineupCall(a))
    ELSE EnrichReturned(Sweep(a.st), WithPosition(out, a.val, PosCol(a.val)),
                        "position", out, LineupCall(a))
EnrichLineup(out, a) ==
    IF ~a.ok
    THEN EnrichRaised(Sweep(a.st), a.exc, a.site, "position", out, LineupCall(a))
    ELSE IF IsEmpty(a.val) \/ ~HasCol(a.val, "athleteId") \/ PosCol(a.val) = None
    THEN EnrichReturned(Sweep(a.st), out, "position", out, LineupCall(a))
    ELSE EnrichReturned(Sweep(a.st), WithPosition(out, a.val, PosCol(a.val)),
                        "position", out, LineupCall(a))

\* event_id = str(df["eventId"].dropna().astype(str).iloc[0]); if event_id: ...
\* (df is the input with its keys as strings: no cell of eventId is NaN)
EnrichPosition(st, fs, df, out, order) ==
    IF HasCol(df, "eventId") /\ df.rows[1]["eventId"].s # ""
    THEN EnrichLineup(out, DetailForEvent(st, fs, "lineup", df.rows[1]["eventId"], order))
    ELSE EnrichReturned(st, out, "position", out, NoLineupCall)

\* the teams step on the table teams
EnrichTeamsOn(st, fs, df, out, order, teams) ==
    IF ~HasCol(teams, "teamId") THEN EnrichPosition(st, fs, df, out, order)
    ELSE IF ~HasCol(out, "teamId")
    THEN EnrichRaised(st, "KeyError", "MergeKeyMissing", "teams", NoTable, NoLineupCall)
    ELSE EnrichPosition(st, fs, df,
                        DropCol(LeftMerge(out, TeamsFrame(teams), "teamId"), "teamId"),
                        order)

\* teams = self.teams().copy() returned or raised r
EnrichTeams(fs, df, out, order, r) ==
    IF ~r.ok
    THEN EnrichRaised(Sweep(r.st), r.exc, "SourceFileMissing", "teams", NoTable, NoLineupCall)
    ELSE EnrichTeamsOn(Sweep(r.st), fs, df, out, order, r.st.heap[r.ref])

\* the players step on the table players
EnrichPlayersOn(st, fs, df, order, players) ==
    IF ~HasCol(df, "athleteId") \/ ~HasCol(players, "athleteId")
    THEN EnrichRaised(st, "KeyError", "MergeKeyMissing", "players", NoTable, NoLineupCall)
    ELSE EnrichTeams(fs, df, LeftMerge(df, PlayersFrame(players), "athleteId"), order,
                     LoadBase(st, "teams"))

\* players = self.players().copy() returned or raised r
EnrichPlayers(fs, df, order, r) ==
    IF ~r.ok
    THEN EnrichRaised(Sweep(r.st), r.exc, "SourceFileMissing", "players", NoTable, NoLineupCall)
    ELSE EnrichPlayersOn(Sweep(r.st), fs, df, order, r.st.heap[r.ref])

\* merge_player_stats(player_stats_df) on the store st, os.listdir giving `order`
MergePlayerStatsLoadsFirst(st, fs, player_stats_df, order) ==
    IF IsEmpty(player_stats_df)
    THEN EnrichReturned(Sweep(LoadBase(st, "players").st), player_stats_df, "empty",
                        NoTable, NoLineupCall)
    ELSE EnrichPlayers(fs, KeysAsStr(player_stats_df), order, LoadBase(st, "players"))
MergePlayerStats(st, fs, player_stats_df, order) ==
    IF IsEmpty(player_stats_df)
    THEN EnrichReturned(st, player_stats_df, "empty", NoTable, NoLineupCall)
    ELSE EnrichPlayers(fs, KeysAsStr(player_stats_df), order, LoadBase(st, "players"))

\* what the call returns or raises
EnrichReturn(df, order, e) ==
    [op |-> "enrich", arg |-> df, order |-> order, ok |-> e.ok, exc |-> e.exc,
     site |-> e.site, step |-> e.step, val |-> e.val, enriched |-> e.enriched,
     lineup |-> e.lineup]

EnrichDone(df, order, e) ==
    /\ cache' = e.st.cache
    /\ heap' = Collect(e.st.heap, e.st.cache, held)
    /\ ioCount' = e.st.ioCount
    /\ firstLoad' = e.st.firstLoad
    /\ ret' = EnrichReturn(df, order, e)

\* a caller calls merge_player_stats(df)
Enrich(df) ==
    /\ \A n \in {"players", "teams", "fixtures"} : cache[n] # 0 \/ ioCount[n] < MaxReads
    /\ \E order \in ListDirOrders(folders["lineup_data"]) :
          EnrichDone(df, order, MergePlayerStats(Store, folders, df, order))
    /\ UNCHANGED <<autocache, held, disk, folders, writes>>

\* ------------------------------------------------------------------
\* The fixtures tables of the model: what pd.read_csv can give for
\* base_data/fixtures.csv.  A table has up to MaxRows rows; row 1 is event 200,
\* every later row event 100 (a duplicated id).  Years differ by source and by
\* row: seasonYear 2030+i, season 2020+i, date 2010+i in row i.

MaxRows == 3

RowId(i) == IF i = 1 THEN 200 ELSE 100

\* how an id column stores the id n in row i; the first row of a text column
\* is not a number, which is what makes pandas keep the column as text
IdCell(rep, n, i) ==
    CASE rep = "int" -> IntCell(n)
      [] rep = "float" -> FloatCell(n, "0")
      [] rep = "str" -> IF i = 1 THEN StrCell("g" \o IntToStr(n)) ELSE StrCell(IntToStr(n))
      [] OTHER -> IF i = 1 THEN StrCell("g" \o IntToStr(n))
                  ELSE StrCell(IntToStr(n) \o ".0")

IdReprs == {"int", "float", "str", "strfloat"}
IdLayouts == {"eventId", "id", "both", "none"}

IdCols(lay) ==
    CASE lay = "eventId" -> <<"eventId">>
      [] lay = "id" -> <<"id">>
      [] lay = "both" -> <<"id", "eventId">>
      [] OTHER -> <<"foo">>

\* with both columns, eventId holds other ids (1000 more) except in row 3
IdColCell(lay, rep, c, i) ==
    IF lay = "both" /\ c = "eventId"
    THEN IdCell(rep, IF i = 3 THEN RowId(i) ELSE RowId(i) + 1000, i)
    ELSE IdCell(rep, RowId(i), i)

RangeStr(y) == IntToStr(y) \o "-" \o IntToStr(y + 1)

SeasonYearProfiles == {"absent", "int", "floatnan", "str"}
SeasonProfiles == {"absent", "range", "int", "floatnan", "rangenan"}
DateProfiles == {"absent", "iso", "isonan", "junk"}

SeasonYearCell(p, i) ==
    CASE p = "int" -> IntCell(2030 + i)
      [] p = "floatnan" -> IF i = 2 THEN NaN ELSE FloatCell(2030 + i, "0")
      [] OTHER -> IF i = 1 THEN StrCell("tbd") ELSE StrCell(IntToStr(2030 + i))

SeasonCell(p, i) ==
    CASE p = "range" -> StrCell(RangeStr(2020 + i))
      [] p = "int" -> IntCell(2020 + i)
      [] p = "floatnan" -> IF i = 2 THEN NaN ELSE FloatCell(2020 + i, "0")
      [] OTHER -> IF i = 2 THEN NaN ELSE StrCell(RangeStr(2020 + i))

DateCell(p, i) ==
    CASE p = "iso" -> StrCell(IntToStr(2010 + i) \o "-08-17")
      [] p = "isonan" -> IF i = 2 THEN NaN ELSE StrCell(IntToStr(2010 + i) \o "-08-17")
      [] OTHER -> IF i = 2 THEN StrCell("tbd") ELSE StrCell(IntToStr(2010 + i) \o "-08-17")

LeagueVariants == {"str", "nan", "num"}

LeagueCell(c, v, i) ==
    IF v = "nan" /\ i = 2 THEN NaN
    ELSE IF v = "num" THEN IntCell(10)
    ELSE CASE c = "leagueId" -> StrCell("ITA.1")
           [] c = "midsizeName" -> StrCell("Serie A")
           [] c = "league" -> StrCell("ita")
           [] OTHER -> StrCell("I1")

\* a season profile is <<seasonYear, season, date>>, a league profile is
\* <<set of league columns, variant>>
MkFx(nr, lay, rep, sp, lp) ==
    LET seasonCols == (IF sp[3] = "absent" THEN <<>> ELSE <<"date">>)
                      \o (IF sp[2] = "absent" THEN <<>> ELSE <<"season">>)
                      \o (IF sp[1] = "absent" THEN <<>> ELSE <<"seasonYear">>)
        leagueCols == SelectSeq(<<"league_code", "league", "midsizeName", "leagueId">>,
                                LAMBDA c : c \in lp[1])
        cols == IdCols(lay) \o seasonCols \o leagueCols
    IN  Table(cols,
              [i \in 1..nr |->
                  [c \in SeqToSet(cols) |->
                      CASE c \in SeqToSet(IdCols(lay)) -> IdColCell(lay, rep, c, i)
                        [] c = "seasonYear" -> SeasonYearCell(sp[1], i)
                        [] c = "season" -> SeasonCell(sp[2], i)
                        [] c = "date" -> DateCell(sp[3], i)
                        [] OTHER -> LeagueCell(c, lp[2], i)]])

AllSeasonProfiles == SeasonYearProfiles \X SeasonProfiles \X DateProfiles
AllLeagueProfiles == (SUBSET SeqToSet(LeagueColumns)) \X LeagueVariants

\* the fixtures tables of the resolver's specification: every id layout and
\* representation with 0..MaxRows rows; every season profile in a table with
\* a text column and in an all-numeric table; every league profile likewise
FxRich ==
    {MkFx(nr, lay, rep, <<"absent", "range", "absent">>, <<{"leagueId"}, "str">>) :
        nr \in 0..MaxRows, lay \in IdLayouts, rep \in IdReprs}
    \cup {MkFx(MaxRows, "eventId", "int", sp, lp) :
            sp \in AllSeasonProfiles,
            lp \in {<<{"leagueId", "league"}, "str">>, <<{}, "str">>}}
    \cup {MkFx(MaxRows, "id", "int", <<"absent", "range", "iso">>, lp) :
            lp \in AllLeagueProfiles}
    \cup {MkFx(MaxRows, "id", "float", <<"floatnan", "int", "absent">>, lp) :
            lp \in AllLeagueProfiles}

\* the ids callers ask for, in every representation
EventIdsRich ==
    {IntCell(100), StrCell("100"), StrCell("100.0"), FloatCell(100, "0"),
     IntCell(200), StrCell("g200"), IntCell(1100), StrCell("1200.0"),
     IntCell(999), StrCell("abc")}

\* ------------------------------------------------------------------
\* The repository as a state machine

Subfolders == {CATEGORIES[c] : c \in DOMAIN CATEGORIES}

DiskFiles == {BASE_TABLES[n] : n \in DOMAIN BASE_TABLES}

FxA == MkFx(2, "eventId", "int", <<"absent", "range", "absent">>, <<{"leagueId"}, "str">>)
FxB == MkFx(2, "id", "float", <<"floatnan", "absent", "iso">>, <<{}, "str">>)

TeamsA == Table(<<"teamId", "displayName">>,
                <<[teamId |-> IntCell(7), displayName |-> StrCell("Inter")]>>)
TeamsB == Table(<<"teamId", "displayName">>,
                <<[teamId |-> IntCell(7), displayName |-> StrCell("Internazionale")],
                  [teamId |-> IntCell(8), displayName |-> StrCell("Milan")]>>)

\* what an external producer may leave in a base_data file
DiskSamples(file) ==
    IF file = "fixtures.csv" THEN {FxB, NoTable}
    ELSE IF file = "teams.csv" THEN {TeamsA}
    ELSE {NoTable}

EventIds == {StrCell("200.0"), IntCell(999)}

InitStore ==
    /\ cache = [n \in CacheNames |-> 0]
    /\ heap = [r \in Refs |-> NoTable]
    /\ held = [sl \in Slots |-> NoHandle]
    /\ ioCount = [n \in CacheNames |-> 0]
    /\ firstLoad = [n \in CacheNames |-> NoTable]
    /\ writes = 0
    /\ ret = [op |-> "init"]

Init ==
    /\ autocache \in BOOLEAN
    /\ \E fx \in {FxA} : \E tm \in {NoTable} :
          disk = [f \in DiskFiles |->
                    IF f = "fixtures.csv" THEN fx ELSE IF f = "teams.csv" THEN tm
                    ELSE NoTable]
    /\ folders = [sf \in Subfolders |-> NoDir]
    /\ InitStore

\* the producer of the dataset rewrites or removes a base_data file
ExternalWrite(file, t) ==
    /\ writes < MaxWrites
    /\ disk[file] # t
    /\ disk' = [disk EXCEPT ![file] = t]
    /\ writes' = writes + 1
    /\ UNCHANGED <<autocache, cache, heap, held, folders, ioCount, firstLoad, ret>>

Next ==
    \/ \E name \in LoadNames : LoadBaseTable(name)
    \/ \E sl \in Slots : CallerEdit(sl)
    \/ \E sl \in Slots : CallerDrop(sl)
    \/ \E file \in {"fixtures.csv", "teams.csv"} :
          \E t \in DiskSamples(file) : ExternalWrite(file, t)
    \/ \E id \in EventIds : Resolve(id)

Spec == Init /\ [][Next]_vars

\* ------------------------------------------------------------------
\* The resolver on every fixtures table of the model

InitResolve ==
    /\ autocache = TRUE
    /\ \E fx \in FxRich :
          disk = [f \in DiskFiles |-> IF f = "fixtures.csv" THEN fx ELSE NoTable]
    /\ folders = [sf \in Subfolders |-> NoDir]
    /\ InitStore

NextResolve == \E id \in EventIdsRich : Resolve(id)

SpecResolve == InitResolve /\ [][NextResolve]_vars

\* ------------------------------------------------------------------
\* The partitioned file loader on the directories of the model

MaxFiles == 3

PartA == Table(<<"eventId", "x">>,
               <<[eventId |-> IntCell(100), x |-> IntCell(1)],
                 [eventId |-> IntCell(200), x |-> IntCell(2)]>>)
PartB == Table(<<"eventId", "y">>,
               <<[eventId |-> IntCell(100), y |-> StrCell("b")]>>)
PartC == Table(<<"x", "eventId">>,
               <<[eventId |-> StrCell("e3"), x |-> FloatCell(3, "5")],
                 [eventId |-> StrCell("e3"), x |-> NaN]>>)
PartNoRows == Table(<<"eventId", "z">>, <<>>)

\* the entries a category directory may hold
FilePool ==
    {Entry("lineup_2024_ITA.1_a.csv", CsvData(PartA)),
     Entry("lineup_2024_ITA.1_b.CSV", CsvData(PartB)),
     Entry("lineup_2024_ITA.1_c.zip",
           ZipData(<<Entry("other_c.csv", CsvData(PartC)),
                     Entry("readme.txt", BadData),
                     Entry("lineup_2024_ITA.1_d.CSV", CsvData(PartNoRows))>>)),
     Entry("lineup_2024_ITA.1_e.csv", BadData),
     Entry("lineup_2024_ITA.1_notes.txt", BadData),
     Entry("lineup_2024_ITA.10_a.csv", CsvData(PartC)),
     Entry("lineup_2024_ITA.1_f.ZIP",
           ZipData(<<Entry("f1.csv", CsvData(PartB)), Entry("f2.csv", BadData)>>))}

Patterns == {"lineup_2024_ITA.1", "lineup_2024_ITA.1_", "lineup_2022_"}

InitPartition ==
    /\ autocache = TRUE
    /\ disk = [f \in DiskFiles |-> NoTable]
    /\ \E dir \in {Dir(d) : d \in {x \in SUBSET FilePool : Cardinality(x) <= MaxFiles}}
                    \cup {NoDir} :
          folders = [sf \in Subfolders |-> IF sf = "lineup_data" THEN dir ELSE NoDir]
    /\ InitStore

NextPartition == \E pattern \in Patterns : LoadPartition("lineup_data", pattern)

SpecPartition == InitPartition /\ [][NextPartition]_vars

\* ------------------------------------------------------------------
\* The detail accessors on the datasets of the model

\* fixtures as read from CSV: numeric ids, a season "YYYY-YYYY", a league id;
\* the record 300 has a season that is no year
FxScenario ==
    Table(<<"eventId", "season", "leagueId">>,
          <<[eventId |-> IntCell(100), season |-> StrCell("2024-2025"),
             leagueId |-> StrCell("ITA.1")],
            [eventId |-> IntCell(200), season |-> StrCell("2024-2025"),
             leagueId |-> StrCell("ITA.1")],
            [eventId |-> IntCell(300), season |-> StrCell("tbd"),
             leagueId |-> StrCell("ITA.1")]>>)

\* fixtures with text ids in the column id and no league column
FxText ==
    Table(<<"id", "season">>,
          <<[id |-> StrCell("A7"), season |-> StrCell("2024")],
            [id |-> StrCell("B2"), season |-> StrCell("2024")]>>)

\* detail tables as read from CSV: numeric record ids {100, 200}, one more
\* row of record 100, text ids {A7, B2, A7}, a table without the eventId
\* column, and one with the column and no row
DetNum ==
    Table(<<"eventId", "text">>,
          <<[eventId |-> IntCell(100), text |-> StrCell("a")],
            [eventId |-> IntCell(200), text |-> StrCell("b")]>>)
DetMore ==
    Table(<<"eventId", "text">>, <<[eventId |-> IntCell(100), text |-> StrCell("c")]>>)
DetText ==
    Table(<<"eventId", "text">>,
          <<[eventId |-> StrCell("A7"), text |-> StrCell("x")],
            [eventId |-> StrCell("B2"), text |-> StrCell("y")],
            [eventId |-> StrCell("A7"), text |-> StrCell("z")]>>)
DetNoId ==
    Table(<<"playId", "text">>,
          <<[playId |-> IntCell(1), text |-> StrCell("p")],
            [playId |-> IntCell(2), text |-> StrCell("q")]>>)
DetNoRows == Table(<<"eventId", "text">>, <<>>)

\* the files of a category directory, named after the category
Part1(cat) == Entry(cat \o "_2024_ITA.1_part1.csv", CsvData(DetNum))
Part2(cat) == Entry(cat \o "_2024_ITA.1_part2.csv", CsvData(DetNoId))
Part3(cat) == Entry(cat \o "_2024_ITA.1_part3.csv", CsvData(DetMore))
PartText(cat) == Entry(cat \o "_2024_None_part1.csv", CsvData(DetText))
PartBad(cat) == Entry(cat \o "_2024_ITA.1_bad.csv", BadData)
PartHead(cat) == Entry(cat \o "_2024_ITA.1_head.csv", CsvData(DetNoRows))

\* the directory of a category, by the kind of its content
DetailDir(kind, cat) ==
    CASE kind = "none" -> NoDir
      [] kind = "empty" -> Dir({})
      [] kind = "p1" -> Dir({Part1(cat)})
      [] kind = "p2" -> Dir({Part2(cat)})
      [] kind = "p12" -> Dir({Part1(cat), Part2(cat)})
      [] kind = "p13" -> Dir({Part1(cat), Part3(cat)})
      [] kind = "text" -> Dir({PartText(cat)})
      [] kind = "bad" -> Dir({Part1(cat), PartBad(cat)})
      [] OTHER -> Dir({PartHead(cat)})

DetailKinds == {"none", "empty", "p1", "p2", "p12", "p13", "text", "bad", "head"}

CategoryOf(subfolder) == CHOOSE c \in DOMAIN CATEGORIES : CATEGORIES[c] = subfolder

\* the directories the five categories have together: the same files in each
DetailFolders ==
    {[sf \in Subfolders |-> DetailDir(kind, CategoryOf(sf))] : kind \in DetailKinds}

DetailEventIds ==
    {IntCell(100), StrCell("100"), StrCell("A7"), IntCell(300), IntCell(999)}

InitDetail ==
    /\ autocache \in BOOLEAN
    /\ \E fx \in {FxScenario, FxText} :
          disk = [f \in DiskFiles |-> IF f = "fixtures.csv" THEN fx ELSE NoTable]
    /\ folders \in DetailFolders
    /\ InitStore

NextDetail ==
    \E cat \in DOMAIN CATEGORIES : \E id \in DetailEventIds : DetailAccessor(cat, id)

SpecDetail == InitDetail /\ [][NextDetail]_vars

\* ------------------------------------------------------------------
\* merge_player_stats on the datasets of the model

\* players.csv: one row per athlete, or two rows for athlete 123
PlayersA ==
    Table(<<"athleteId", "displayName">>,
          <<[athleteId |-> IntCell(123), displayName |-> StrCell("Rossi")],
            [athleteId |-> IntCell(456), displayName |-> StrCell("Bianchi")]>>)
PlayersDup ==
    Table(<<"athleteId", "displayName">>,
          <<[athleteId |-> IntCell(123), displayName |-> StrCell("Rossi")],
            [athleteId |-> IntCell(123), displayName |-> StrCell("Rossi M.")]>>)

PlayersNoId == Table(<<"displayName">>, <<[displayName |-> StrCell("Rossi")]>>)

\* teams.csv with two rows for team 7, and one without the teamId column
TeamsDup ==
    Table(<<"teamId", "displayName">>,
          <<[teamId |-> IntCell(7), displayName |-> StrCell("Inter")],
            [teamId |-> IntCell(7), displayName |-> StrCell("Internazionale")]>>)
TeamsNoId == Table(<<"displayName">>, <<[displayName |-> StrCell("Inter")]>>)

\* lineup files: numeric record ids as read from CSV; text record ids, athlete
\* 123 listed with two positions; no eventId column
LineupNum ==
    Table(<<"eventId", "athleteId", "position">>,
          <<[eventId |-> IntCell(100), athleteId |-> IntCell(123), position |-> StrCell("GK")],
            [eventId |-> IntCell(200), athleteId |-> IntCell(456), position |-> StrCell("DF")]>>)
LineupText ==
    Table(<<"eventId", "athleteId", "positionName">>,
          <<[eventId |-> StrCell("A7"), athleteId |-> IntCell(123),
             positionName |-> StrCell("GK")],
            [eventId |-> StrCell("A7"), athleteId |-> IntCell(123),
             positionName |-> StrCell("DF")],
            [eventId |-> StrCell("A7"), athleteId |-> IntCell(123),
             positionName |-> StrCell("GK")]>>)
LineupNoEvent ==
    Table(<<"athleteId", "position">>,
          <<[athleteId |-> IntCell(123), position |-> StrCell("GK")],
            [athleteId |-> IntCell(456), position |-> StrCell("DF")]>>)

\* the lineup_data directory, by the kind of its content
LineupDir(kind) ==
    CASE kind = "none" -> NoDir
      [] kind = "empty" -> Dir({})
      [] kind = "other" ->
            Dir({Entry("lineup_2023_ITA.1_part1.csv", CsvData(LineupNum)),
                 Entry("commentary_2024_ITA.1_part1.csv", CsvData(DetNum))})
      [] kind = "num" -> Dir({Entry("lineup_2024_ITA.1_part1.csv", CsvData(LineupNum))})
      [] kind = "text" -> Dir({Entry("lineup_2024_None_part1.csv", CsvData(LineupText))})
      [] OTHER -> Dir({Entry("lineup_2024_ITA.1_part2.csv", CsvData(LineupNoEvent))})

LineupKinds == {"none", "empty", "other", "num", "text", "noevent"}

\* the player statistics a caller passes
StatsRow(event, athlete, team) ==
    [eventId |-> event, athleteId |-> athlete, teamId |-> team, goals |-> IntCell(1)]
StatsCols == <<"eventId", "athleteId", "teamId", "goals">>
StatsInputs ==
    {Table(StatsCols, <<StatsRow(IntCell(100), IntCell(123), IntCell(7)),
                        StatsRow(IntCell(100), IntCell(456), IntCell(8))>>),
     Table(StatsCols, <<StatsRow(IntCell(100), FloatCell(123, "0"), FloatCell(7, "0")),
                        StatsRow(IntCell(100), NaN, NaN)>>),
     Table(StatsCols, <<StatsRow(StrCell("A7"), StrCell("123"), StrCell("7"))>>),
     Table(StatsCols, <<StatsRow(IntCell(999), IntCell(123), IntCell(7))>>),
     Table(StatsCols, <<StatsRow(IntCell(300), IntCell(123), IntCell(7))>>),
     Table(StatsCols, <<>>),
     Table(<<"athleteId", "goals">>,
           <<[athleteId |-> IntCell(123), goals |-> IntCell(1)]>>),
     Table(<<"teamId", "goals">>,
           <<[teamId |-> IntCell(7), goals |-> IntCell(1)]>>)}

EnrichEventIds == {StrCell("100"), StrCell("A7"), StrCell("999")}

\* the datasets of the model: every lineup directory under both fixtures
\* tables with plain players and teams tables, and every other players and
\* teams table with one or two lineup directories
EnrichDatasets ==
    {[fx |-> fx, pl |-> PlayersA, tm |-> TeamsB, kind |-> kind] :
        fx \in {FxScenario, FxText}, kind \in LineupKinds}
    \cup {[fx |-> FxScenario, pl |-> pl, tm |-> TeamsB, kind |-> "other"] :
            pl \in {PlayersDup, PlayersNoId, NoTable}}
    \cup {[fx |-> FxScenario, pl |-> PlayersA, tm |-> tm, kind |-> kind] :
            tm \in {TeamsDup, TeamsNoId}, kind \in {"other", "noevent"}}

InitEnrich ==
    /\ autocache \in BOOLEAN
    /\ \E ds \in EnrichDatasets :
          /\ disk = [f \in DiskFiles |->
                       CASE f = "fixtures.csv" -> ds.fx
                         [] f = "players.csv" -> ds.pl
                         [] f = "teams.csv" -> ds.tm
                         [] OTHER -> NoTable]
          /\ folders = [sf \in Subfolders |->
                          IF sf = "lineup_data" THEN LineupDir(ds.kind) ELSE NoDir]
    /\ InitStore

NextEnrich ==
    \/ \E df \in StatsInputs : Enrich(df)
    \/ \E id \in EnrichEventIds : DetailAccessor("lineup", id)

SpecEnrich == InitEnrich /\ [][NextEnrich]_vars

\* ------------------------------------------------------------------
\* The public operations of the repository on one dataset: a base table
\* accessor, a detail accessor and merge_player_stats, with callers that edit
\* what they were given and a producer that removes fixtures.csv

\* the statistics of record 100
RepositoryInput == Table(StatsCols, <<StatsRow(IntCell(100), IntCell(123), IntCell(7))>>)

InitRepository ==
    /\ autocache \in BOOLEAN
    /\ disk = [f \in DiskFiles |->
                 CASE f = "fixtures.csv" -> FxScenario
                   [] f = "players.csv" -> PlayersA
                   [] f = "teams.csv" -> TeamsB
                   [] OTHER -> NoTable]
    /\ folders = [sf \in Subfolders |->
                    IF sf = "lineup_data" THEN LineupDir("noevent") ELSE NoDir]
    /\ InitStore

NextRepository ==
    \/ LoadBaseTable("players")
    \/ \E sl \in Slots : CallerEdit(sl)
    \/ ExternalWrite("fixtures.csv", NoTable)
    \/ DetailAccessor("lineup", IntCell(100))
    \/ Enrich(RepositoryInput)

SpecRepository == InitRepository /\ [][NextRepository]_vars

\* ------------------------------------------------------------------
\* Properties

\* what the cache holds, by content
CacheView == [n \in DOMAIN cache |-> IF cache[n] = 0 THEN NoTable ELSE heap[cache[n]]]

\* C1: with caching enabled, once a table name has been loaded successfully
\* its file has been read exactly once whatever was called since, and every
\* load of the name (and every fixtures read of the resolver) returns the
\* content the first load read, even after the file changed on disk.
C1_CachedLoadReadsOnce ==
    autocache =>
        \A n \in LoadNames :
            firstLoad[n] # NoTable =>
                /\ ioCount[n] = 1
                /\ (ret.op = "load" /\ ret.name = n /\ ret.ok) =>
                        ret.val = firstLoad[n]
                /\ (ret.op = "resolve" /\ n = "fixtures" /\ ret.fx # NoTable) =>
                        ret.fx = firstLoad[n]

\* a cache hit: a load that read nothing, after the file on disk changed
C1_Witness ==
    /\ autocache
    /\ ret.op = "load" /\ ret.ok /\ ret.reads = 0
    /\ disk[BASE_TABLES[ret.name]] # firstLoad[ret.name]
    /\ ioCount[ret.name] = 1

\* C2: every DataFrame a load returned is an object of its own: the cached
\* table still has the content first read, and every held table has the
\* content it was returned with, changed only by its own holder's edit.
C2_ReturnedTablesIndependent ==
    /\ \A n \in LoadNames :
          cache[n] # 0 => autocache /\ heap[cache[n]] = firstLoad[n]
    /\ \A sl \in Slots :
          held[sl] # NoHandle =>
              /\ heap[held[sl].ref] =
                    IF held[sl].edited THEN EditTable(held[sl].orig) ELSE held[sl].orig
              /\ autocache => held[sl].orig = firstLoad[held[sl].name]
              /\ \A n \in LoadNames : cache[n] # held[sl].ref
              /\ \A s2 \in Slots \ {sl} : held[s2].ref # held[sl].ref

\* one caller edited its table while the cache and another caller hold the same name
C2_Witness ==
    \E s1, s2 \in Slots :
        /\ held[s1] # NoHandle /\ held[s2] # NoHandle
        /\ held[s1].edited /\ ~held[s2].edited
        /\ held[s1].name = held[s2].name
        /\ cache[held[s1].name] # 0

\* the row of the last resolve, as the code sees it
FoundRow == IlocRow(ret.fx, ret.idx)

\* the last call was a resolve that read a fixtures table
Resolved == ret.op = "resolve" /\ ret.fx # NoTable

\* the last call was a resolve that found its record
Found == Resolved /\ ret.site # "RecordNotFound"

\* no cell of a candidate id column has the id's normalized string form
NoRowMatches(fx, id) ==
    \A c \in SeqToSet(IdColumns) \cap SeqToSet(fx.cols) :
        \A i \in 1..Len(fx.rows) : IdStr(fx.rows[i][c]) # IdStr(id)

\* C3: a record id that matches no row of fixtures in any candidate id column
\* makes resolve fail with the record-not-found error, and no key is returned.
C3_AbsentIdNotFound ==
    (Resolved /\ NoRowMatches(ret.fx, ret.arg)) =>
        /\ ~ret.ok
        /\ ret.exc = "KeyError" /\ ret.site = "RecordNotFound"
        /\ ret.season_year = 0 /\ ret.league_code = NoneVal

\* an id looked for in a table that has rows and a candidate id column
C3_Witness ==
    /\ Resolved /\ ret.site = "RecordNotFound"
    /\ Len(ret.fx.rows) > 0
    /\ HasCol(ret.fx, "eventId")
    /\ ret.arg = IntCell(999)

\* the representations of the integer id n: the number, the float, the two texts
Denotes(x, n) ==
    x \in {IntCell(n), FloatCell(n, "0"), StrCell(IntToStr(n)),
           StrCell(IntToStr(n) \o ".0")}

IdValues == {100, 200, 999, 1100, 1200}

\* the candidate columns of fx holding the id n in some representation
ColsWith(fx, n) ==
    SelectSeq(IdColumns,
              LAMBDA c : HasCol(fx, c)
                         /\ \E i \in 1..Len(fx.rows) : Denotes(fx.rows[i][c], n))

\* C4: an integer id given as 123, "123" or "123.0" resolves to the same
\* row, the first one holding the id in the first candidate column that holds
\* it, whether the column stores it as a number or as a text, and to the same
\* outcome as every other representation of the id.
C4_IdRepresentationsAgree ==
    \A n \in IdValues :
        (Resolved /\ Denotes(ret.arg, n) /\ Len(ColsWith(ret.fx, n)) > 0) =>
            LET c == ColsWith(ret.fx, n)[1]
                rows == {i \in 1..Len(ret.fx.rows) : Denotes(ret.fx.rows[i][c], n)}
            IN  /\ ret.site # "RecordNotFound"
                /\ ret.col = c
                /\ ret.idx \in rows /\ \A i \in rows : ret.idx <= i
                /\ \A other \in {IntCell(n), StrCell(IntToStr(n)),
                                 StrCell(IntToStr(n) \o ".0")} :
                      LET d == DeriveSeasonLeagueCode(ret.fx, other)
                      IN  /\ d.ok = ret.ok /\ d.idx = ret.idx
                          /\ d.season_year = ret.season_year
                          /\ d.league_code = ret.league_code

\* the text "100.0" found in a column of numbers
C4_Witness ==
    /\ Resolved /\ ret.ok
    /\ ret.arg = StrCell("100.0")
    /\ ret.fx.rows[ret.idx][ret.col] = IntCell(100)
    /\ ret.idx = 2

\* the value a season source gives for the found row, [ok, n]
SourceValue(c) ==
    CASE c = "seasonYear" -> FromSeasonYear(FoundRow[c])
      [] c = "season" -> FromSeason(FoundRow[c])
      [] OTHER -> FromDate(FoundRow[c])

SeasonSources == <<"seasonYear", "season", "date">>

\* the season sources present as columns, and those that yield a value
PresentSources == SelectSeq(SeasonSources, LAMBDA c : HasCol(ret.fx, c))
YieldingSources == SelectSeq(PresentSources, LAMBDA c : SourceValue(c).ok)

ExpectedYear(c, x) ==
    CASE c = "seasonYear" ->
            (CASE x.k \in {"int", "float"} -> x.n
               [] x.k = "str" /\ IsDigits(x.s) -> DigitsToNat(x.s)
               [] OTHER -> -1)
      [] c = "season" ->
            (CASE x.k = "int" -> x.n
               [] x.k = "str" /\ Len(x.s) = 4 /\ IsDigits(x.s) -> DigitsToNat(x.s)
               [] x.k = "str" /\ Len(x.s) = 9 /\ IsDigits(SubSeq(x.s, 1, 4))
                  /\ CharAt(x.s, 5) = "-" /\ IsDigits(SubSeq(x.s, 6, 9)) ->
                        DigitsToNat(SubSeq(x.s, 1, 4))
               [] OTHER -> -1)
      [] OTHER ->
            (CASE x.k = "str" /\ Len(x.s) = 10 /\ IsDigits(SubSeq(x.s, 1, 4)) ->
                        DigitsToNat(SubSeq(x.s, 1, 4))
               [] OTHER -> -1)

LeagueFrom(cols) ==
    LET present == SelectSeq(cols, LAMBDA c : HasCol(ret.fx, c))
    IN  IF Len(present) = 0 THEN NoneVal ELSE StrCell(PyStr(FoundRow[present[1]]))

ResolveStep == \E id \in EventIds : Resolve(id)

\* C7 as stated: resolve leaves the cache and every other field of the
\* repository as they were.
C7_ResolveMutatesNothing ==
    [][ResolveStep =>
          /\ CacheView' = CacheView
          /\ autocache' = autocache /\ disk' = disk /\ folders' = folders]_vars

\* C7, amended: resolve changes nothing of the repository but the fixtures
\* entry of the cache: with caching enabled, no fixtures entry yet and the
\* fixtures file there, the call adds the table it read, whether the
\* resolution then succeeds or fails; otherwise the cache is as it was.  The
\* other entries, autocache and the files are never changed.
C7_ResolveOnlyCachesFixtures ==
    [][ResolveStep =>
          /\ autocache' = autocache /\ disk' = disk /\ folders' = folders
          /\ \A n \in LoadNames \ {"fixtures"} : CacheView'[n] = CacheView[n]
          /\ CacheView'["fixtures"] =
                IF autocache /\ cache["fixtures"] = 0
                THEN disk["fixtures.csv"]
                ELSE CacheView["fixtures"]]_vars

\* a resolve on a repository that had not read fixtures, which cached it and failed
C7_Witness ==
    /\ ret.op = "resolve" /\ ret.reads = 1 /\ ~ret.ok
    /\ autocache /\ cache["fixtures"] # 0
    /\ heap[cache["fixtures"]] = ret.fx

\* the directory of the last partition load
LoadedDir == folders[ret.subfolder]

\* C8: a directory that exists and holds no entry starting with the prefix
\* gives a dataset of zero rows and no error; the directory-missing error is
\* raised when, and only when, the directory does not exist.
C8_EmptyIsNotFailure ==
    ret.op = "loadPartition" =>
        /\ (LoadedDir.exists
            /\ \A e \in LoadedDir.entries : ~StartsWith(e.name, ret.pattern)) =>
                ret.ok /\ Len(ret.val.rows) = 0 /\ ret.exc = None
        /\ ~LoadedDir.exists <=>
                (~ret.ok /\ ret.site = "CategoryDirectoryMissing")
        /\ ret.exc = "FileNotFoundError" => ~LoadedDir.exists

\* a directory with files, none of them of the partition asked for
C8_Witness ==
    /\ ret.op = "loadPartition" /\ ret.ok
    /\ LoadedDir.exists /\ Cardinality(LoadedDir.entries) >= 2
    /\ \A e \in LoadedDir.entries : ~StartsWith(e.name, ret.pattern)
    /\ \E e \in LoadedDir.entries : e.data.t = "csv"

\* C9: for a fixed set of files, the rows of the result come in the same
\* order whatever order the directory listing gives the entries in.
C9_OrderDeterministic ==
    (ret.op = "loadPartition" /\ ret.ok) =>
        \A o \in ListDirOrders(LoadedDir) :
            LET r == LoadFilesByPattern(folders, ret.subfolder, ret.pattern, o)
            IN  r.ok => r.val.rows = ret.val.rows

\* two cells hold the same value: equal, or an int64 shown as a float64
SameValue(a, b) == a = b \/ (b.k = "int" /\ a = FloatCell(b.n, "0"))

RECURSIVE RowsBefore(_, _)
RowsBefore(frames, k) ==
    IF k <= 1 THEN 0 ELSE RowsBefore(frames, k - 1) + Len(frames[k - 1].rows)

\* C10: the result holds the rows of every parsed table once, table after
\* table and in each table's own order; its columns are the union of the
\* tables' columns, and a row has NaN in every column its file does not have.
C10_ConcatKeepsRows ==
    (ret.op = "loadPartition" /\ ret.ok /\ Len(ret.frames) > 0) =>
        /\ SeqToSet(ret.val.cols) =
              UNION {SeqToSet(ret.frames[k].cols) : k \in 1..Len(ret.frames)}
        /\ Len(ret.val.cols) = Cardinality(SeqToSet(ret.val.cols))
        /\ Len(ret.val.rows) = RowsBefore(ret.frames, Len(ret.frames) + 1)
        /\ \A k \in 1..Len(ret.frames) :
              \A j \in 1..Len(ret.frames[k].rows) :
                  LET row == ret.val.rows[RowsBefore(ret.frames, k) + j]
                  IN  \A c \in SeqToSet(ret.val.cols) :
                          IF HasCol(ret.frames[k], c)
                          THEN SameValue(row[c], ret.frames[k].rows[j][c])
                          ELSE row[c] = NaN

\* two files with different columns were concatenated
C10_Witness ==
    /\ ret.op = "loadPartition" /\ ret.ok /\ Len(ret.frames) >= 2
    /\ \E k \in 1..Len(ret.frames) :
          /\ Len(ret.frames[k].rows) > 0
          /\ SeqToSet(ret.frames[k].cols) # SeqToSet(ret.val.cols)
    /\ \E i \in 1..Len(ret.val.rows) : ret.val.rows[i]["eventId"] = IntCell(100)

\* the entry of the loaded directory with the name nm
EntryNamed(nm) == CHOOSE e \in LoadedDir.entries : e.name = nm

\* the tables of the members of an archive whose names end in .csv, in archive order
CsvMemberTables(ms) ==
    LET csv == SelectSeq(ms, LAMBDA m : EndsWith(Lower(m.name), ".csv"))
    IN  [i \in 1..Len(csv) |-> csv[i].data.table]

\* what an entry is to contribute to a load with the prefix
Contribution(e, prefix) ==
    IF ~StartsWith(e.name, prefix) THEN <<>>
    ELSE IF EndsWith(Lower(e.name), ".csv") THEN <<e.data.table>>
    ELSE IF EndsWith(Lower(e.name), ".zip") THEN CsvMemberTables(e.data.members)
    ELSE <<>>

RECURSIVE Contributions(_, _)
Contributions(order, prefix) ==
    IF Len(order) = 0 THEN <<>>
    ELSE Contribution(EntryNamed(order[1]), prefix) \o Contributions(Tail(order), prefix)

\* C11: the tables a successful load concatenates are, entry by entry in
\* listing order: nothing for an entry whose name does not start with the
\* prefix, the table of a CSV whose name does, and the tables of all the .csv
\* members of an archive whose name does, whatever the members are called.
C11_EligibleByPrefix ==
    (ret.op = "loadPartition" /\ ret.ok) =>
        ret.frames = Contributions(ret.order, ret.pattern)

\* an archive with the prefix gave the rows of a member without it, next to
\* a CSV file that does not start with the prefix
C11_Witness ==
    /\ ret.op = "loadPartition" /\ ret.ok
    /\ ret.pattern = "lineup_2024_ITA.1_"
    /\ \E e \in LoadedDir.entries :
          /\ StartsWith(e.name, ret.pattern) /\ e.data.t = "zip"
          /\ \E i \in 1..Len(e.data.members) :
                /\ ~StartsWith(e.data.members[i].name, ret.pattern)
                /\ e.data.members[i].data.t = "csv"
                /\ \E k \in 1..Len(ret.frames) :
                      ret.frames[k] = e.data.members[i].data.table
    /\ \E e \in LoadedDir.entries :
          ~StartsWith(e.name, ret.pattern) /\ e.data.t = "csv"
    /\ Len(ret.val.rows) = 2

\* the entries of the listing that start with the prefix and do not parse
Offending(order, prefix) ==
    SelectSeq(order,
              LAMBDA nm : /\ StartsWith(nm, prefix)
                          /\ LET e == EntryNamed(nm)
                             IN  \/ EndsWith(Lower(nm), ".csv") /\ e.data.t # "csv"
                                 \/ /\ EndsWith(Lower(nm), ".zip")
                                    /\ \/ e.data.t # "zip"
                                       \/ \E i \in 1..Len(e.data.members) :
                                             /\ EndsWith(Lower(e.data.members[i].name), ".csv")
                                             /\ e.data.members[i].data.t # "csv")

\* the last load met a file that does not parse
ParseFailed ==
    /\ ret.op = "loadPartition" /\ LoadedDir.exists
    /\ Len(Offending(ret.order, ret.pattern)) > 0

DetailCall == ret.op = "detail"

\* the record id of a loaded row is the requested id: the same number, or the
\* same text
SameRecordId(cell, id) ==
    \/ cell.k = "str" /\ id.k = "str" /\ cell.s = id.s
    \/ /\ cell.k \in {"int", "float"} /\ id.k \in {"int", "float"}
       /\ cell.n = id.n
       /\ (cell.k = "float" => cell.s = "0") /\ (id.k = "float" => id.s = "0")

RequestedRows(df, id) == SelectSeq(df.rows, LAMBDA row : SameRecordId(row["eventId"], id))

\* C13: whichever of the five accessors is called, when the loaded partition
\* data is non-empty and has the eventId column the result has the loaded
\* columns and exactly the loaded rows whose eventId equals the requested id,
\* in the loaded order, duplicates kept.
C13_ExactlyRequestedRows ==
    (DetailCall /\ ret.ok /\ ~IsEmpty(ret.loaded) /\ HasCol(ret.loaded, "eventId")) =>
        /\ ret.val.cols = ret.loaded.cols
        /\ ret.val.rows = RequestedRows(ret.loaded, ret.arg)

\* ids {A7, B2, A7} loaded, A7 requested: the two A7 rows, first x then z
C13_Witness ==
    /\ DetailCall /\ ret.ok /\ ret.cat = "playerStats"
    /\ ret.arg = StrCell("A7")
    /\ Len(ret.loaded.rows) = 3
    /\ ret.loaded.rows[2]["eventId"] = StrCell("B2")
    /\ Len(ret.val.rows) = 2
    /\ ret.val.rows[1]["text"] = StrCell("x")
    /\ ret.val.rows[2]["text"] = StrCell("z")

\* C14: in the scenario (fixtures with record 100, season 2024-2025, league
\* ITA.1; commentary_2024_ITA.1_part1.csv with a row of record 100 and a row
\* of record 200), commentary_for_event("100") returns exactly the row of
\* record 100.  The code compares the int64 column with the string: no row.
C14_TextIdMatchesNumericRecord ==
    (/\ DetailCall /\ ret.cat = "commentary" /\ ret.arg = StrCell("100")
     /\ disk["fixtures.csv"] = FxScenario
     /\ folders["commentary_data"] = Dir({Part1("commentary")})) =>
        /\ ret.ok
        /\ ret.val.rows = <<DetNum.rows[1]>>

\* C15: whichever accessor is called, when the loaded partition data has no
\* eventId column the call does not fail and returns the loaded data whole.
C15_NoIdColumnUnfiltered ==
    (DetailCall /\ ret.loaderCalls = 1 /\ ret.loaded # NoTable
        /\ ~HasCol(ret.loaded, "eventId")) =>
        /\ ret.ok
        /\ ret.val = ret.loaded

\* two rows without eventId loaded for a request of record 100: both returned
C15_Witness ==
    /\ DetailCall /\ ret.cat = "plays" /\ ret.arg = IntCell(100)
    /\ ret.loaded = DetNoId
    /\ Len(ret.val.rows) = 2

\* what the resolver does on the fixtures on disk for the requested id
ResolverOutcome == DeriveSeasonLeagueCode(disk["fixtures.csv"], ret.arg)

\* C16: whichever accessor is called, when the resolver fails for the
\* requested id (no such record, season undetermined) the accessor fails with
\* the resolver's exception, and the partition loader was not called.
C16_ResolverFailurePropagates ==
    (DetailCall /\ ~ResolverOutcome.ok) =>
        /\ ~ret.ok
        /\ ret.exc = ResolverOutcome.exc
        /\ ret.site = ResolverOutcome.site
        /\ ret.loaderCalls = 0

\* record 300 has no season: the lineup accessor fails although the lineup
\* directory holds files
C16_Witness ==
    /\ DetailCall /\ ret.cat = "lineup" /\ ret.arg = IntCell(300)
    /\ ~ret.ok /\ ret.exc = "ValueError"
    /\ folders["lineup_data"] = Dir({Part1("lineup")})

\* record 999 is not in fixtures: KeyError
C16_WitnessNotFound ==
    /\ DetailCall /\ ret.arg = IntCell(999) /\ ~ret.ok /\ ret.exc = "KeyError"
    /\ ret.loaderCalls = 0

\* ------------------------------------------------------------------
\* merge_player_stats

EnrichCall == ret.op = "enrich"

\* C17: merge_player_stats never changes the row count: whatever players,
\* teams and lineup hold, the output of a call on a non-empty input has as
\* many rows as the input.  The left merges make one output row per matching
\* row of the right table: a second players row for an athlete doubles it.
C17_RowCountKept ==
    (EnrichCall /\ ret.ok /\ ~IsEmpty(ret.arg)) =>
        Len(ret.val.rows) = Len(ret.arg.rows)

\* C18: the position step is best-effort: when lineup_for_event fails for the
\* input's record id (record not in fixtures, season undetermined, lineup
\* directory missing), merge_player_stats still returns the rows enriched
\* from players and teams, without a position column.  The call is not
\* guarded: its exception leaves merge_player_stats.
C18_PositionBestEffort ==
    (EnrichCall /\ ret.lineup.called /\ ~ret.lineup.ok) =>
        /\ ret.ok
        /\ ret.val = ret.enriched
        /\ ~HasCol(ret.val, "position")

\* the record id merge_player_stats asks the lineup of: the first eventId
\* of the input, as a string
EventOf(df) == StrCell(PyStr(df.rows[1]["eventId"]))

\* no entry of lineup_data starts with the prefix resolved for the record id:
\* the directory exists, the resolver succeeds, no name matches
NoLineupFile(id) ==
    /\ folders["lineup_data"] # NoDir
    /\ disk["fixtures.csv"] # NoTable
    /\ DeriveSeasonLeagueCode(disk["fixtures.csv"], id).ok
    /\ \A e \in folders["lineup_data"].entries :
          ~StartsWith(e.name, PrefixOf("lineup", DeriveSeasonLeagueCode(disk["fixtures.csv"], id)))

C20_KeysNormalized ==
    (EnrichCall /\ ret.ok /\ ret.step = "position") =>
        \A i \in 1..Len(ret.arg.rows) :
            \A j \in 1..Len(disk["players.csv"].rows) :
                (/\ ret.arg.rows[i]["athleteId"] # NaN
                 /\ IdStr(ret.arg.rows[i]["athleteId"])
                        = IdStr(disk["players.csv"].rows[j]["athleteId"])) =>
                    \E o \in 1..Len(ret.val.rows) :
                        /\ IdStr(ret.val.rows[o]["athleteId"])
                               = IdStr(ret.arg.rows[i]["athleteId"])
                        /\ ret.val.rows[o]["playerName"]
                               = disk["players.csv"].rows[j]["displayName"]

\* ------------------------------------------------------------------
\* Failed loads and the cache

\* the file of a registered name is not there
FileAbsent(name) == name \in DOMAIN BASE_TABLES /\ disk[BASE_TABLES[name]] = NoTable

\* C21 as stated: a load of a name that is not registered fails with KeyError,
\* a load of a registered name whose file is absent fails with
\* FileNotFoundError, a failed load leaves the cache as it was, and a load of
\* a registered name whose file is there succeeds.  A name that is cached is
\* served from the cache although its file was removed.
C21_AbsentFileAlwaysFails ==
    [][\A name \in LoadNames :
          LoadBaseTable(name) =>
              /\ name \notin DOMAIN BASE_TABLES => ~ret'.ok /\ ret'.exc = "KeyError"
              /\ FileAbsent(name) => ~ret'.ok /\ ret'.exc = "FileNotFoundError"
              /\ ~ret'.ok => cache' = cache /\ CacheView' = CacheView
              /\ (name \in DOMAIN BASE_TABLES /\ ~FileAbsent(name)) => ret'.ok]_vars

\* C21, amended: the file-missing failure is that of a name with no cache
\* entry; a cached name is served from the cache whatever became of its file.
\* A load fails in exactly the two cases, a failed load leaves the cache as
\* it was (no entry added, none changed), and a load of a registered name
\* whose file is there succeeds, whatever failed before.
C21_FailedLoadLeavesCache ==
    [][\A name \in LoadNames :
          LoadBaseTable(name) =>
              /\ name \notin DOMAIN BASE_TABLES => ~ret'.ok /\ ret'.exc = "KeyError"
              /\ (FileAbsent(name) /\ cache[name] = 0) =>
                    ~ret'.ok /\ ret'.exc = "FileNotFoundError"
              /\ (FileAbsent(name) /\ cache[name] # 0) =>
                    ret'.ok /\ ret'.val = CacheView[name]
              /\ ~ret'.ok =>
                    /\ name \notin DOMAIN BASE_TABLES \/ FileAbsent(name)
                    /\ cache' = cache /\ CacheView' = CacheView
              /\ (name \in DOMAIN BASE_TABLES /\ ~FileAbsent(name)) => ret'.ok]_vars

\* a load of teams failed for its missing file while fixtures stays cached
C21_Witness ==
    /\ ret.op = "load" /\ ret.name = "teams" /\ ~ret.ok
    /\ ret.exc = "FileNotFoundError"
    /\ cache["fixtures"] # 0 /\ cache["teams"] = 0

\* teams.csv was absent at construction and written since: the load succeeds
C21_WitnessLater ==
    /\ ret.op = "load" /\ ret.name = "teams" /\ ret.ok
    /\ writes > 0

\* C22: merge_player_stats on an empty input returns the input as it is (the
\* same columns, no row) and does nothing else: no base table is read or
\* taken from the cache, the cache is as it was, and no lineup is asked for.
C22_EmptyInputUntouched ==
    [][\A df \in StatsInputs :
          (IsEmpty(df) /\ Enrich(df)) =>
              /\ ret'.ok /\ ret'.val = df
              /\ ~ret'.lineup.called
              /\ cache' = cache /\ heap' = heap
              /\ ioCount' = ioCount /\ firstLoad' = firstLoad
              /\ disk' = disk /\ folders' = folders]_vars

\* an empty input came back although players.csv is missing and nothing is cached
C22_Witness ==
    /\ EnrichCall /\ ret.ok
    /\ Len(ret.arg.rows) = 0 /\ Len(ret.arg.cols) > 0
    /\ ret.val = ret.arg
    /\ disk["players.csv"] = NoTable
    /\ \A n \in DOMAIN cache : cache[n] = 0 /\ ioCount[n] = 0

\* ------------------------------------------------------------------
\* Partitions of leagues whose codes extend one another

\* the prefix lineup_for_event builds for a record of season 2024, league ITA.1
PrefixITA1 == PrefixOf("lineup", [season_year |-> 2024, league_code |-> StrCell("ITA.1")])

\* the name of e is the prefix followed by a digit: a file of a league whose
\* code goes on after the requested one (ITA.10 for ITA.1)
OtherLeague(e, prefix) ==
    /\ StartsWith(e.name, prefix)
    /\ Len(e.name) > Len(prefix)
    /\ CharAt(e.name, Len(prefix) + 1) \in Digit

\* C23: a load for the partition (2024, ITA.1) of a directory that holds only
\* files of leagues whose code extends ITA.1 returns no row.  The code takes
\* every name that starts with lineup_2024_ITA.1, lineup_2024_ITA.10_a.csv too.
C23_OnlyOwnPartition ==
    (/\ ret.op = "loadPartition" /\ ret.ok /\ ret.pattern = PrefixITA1
     /\ LoadedDir.entries # {}
     /\ \A e \in LoadedDir.entries : OtherLeague(e, ret.pattern)) =>
        Len(ret.val.rows) = 0

\* ------------------------------------------------------------------
\* The position step and the join keys

\* the first record id of the input that is not null, as the input holds it
FirstEventId(df) ==
    df.rows[CHOOSE i \in 1..Len(df.rows) :
                /\ df.rows[i]["eventId"] # NaN
                /\ \A j \in 1..(i - 1) : df.rows[j]["eventId"] = NaN]["eventId"]

\* the lineup l can give positions: it is there, not empty, with athleteId
\* and a position-like column
GivesPositions(l) ==
    l.ok /\ ~IsEmpty(l.val) /\ HasCol(l.val, "athleteId") /\ PosCol(l.val) # None

\* the output out has the column position, filled in every row whose athlete
\* is in the lineup
PositionsFilled(out, lineup) ==
    /\ HasCol(out, "position")
    /\ \A o \in 1..Len(out.rows) :
          (\E r \in 1..Len(lineup.rows) :
                IdStr(lineup.rows[r]["athleteId"]) = IdStr(out.rows[o]["athleteId"])) =>
              out.rows[o]["position"] # NaN

PositionJoined(l) == GivesPositions(l) => ret.ok /\ PositionsFilled(ret.val, l.val)

\* C24: when lineup_for_event gives, for the first non-null record id of the
\* input, a non-empty lineup with athleteId and a position-like column,
\* merge_player_stats (its players and teams steps done) returns an output
\* with the column position, filled for every row whose athlete is in that
\* lineup.  The code asks for the lineup of str(id): against the int64
\* eventId column of a lineup read from CSV that request gives no row, and
\* no position is joined.
C24_PositionJoined ==
    (/\ EnrichCall /\ ret.step = "position" /\ HasCol(ret.arg, "eventId")
     /\ \E i \in 1..Len(ret.arg.rows) : ret.arg.rows[i]["eventId"] # NaN) =>
        PositionJoined(DetailForEvent(Store, folders, "lineup",
                                      FirstEventId(ret.arg), ret.order))

\* the join is one whose key column is missing
KeyMissing(df) ==
    \/ ~HasCol(df, "athleteId")
    \/ ~HasCol(df, "teamId")
    \/ ~HasCol(disk["players.csv"], "athleteId")

\* C25: merge_player_stats on a non-empty input without the athleteId or the
\* teamId column, or with a players table without athleteId, does not fail
\* and returns every input row (players.csv and teams.csv are there, and the
\* input has no eventId, so nothing else can fail).  DataFrame.merge raises
\* KeyError for the missing key.
C25_MissingKeysTolerated ==
    (/\ EnrichCall /\ ~IsEmpty(ret.arg) /\ ~HasCol(ret.arg, "eventId")
     /\ disk["players.csv"] # NoTable /\ disk["teams.csv"] # NoTable
     /\ KeyMissing(ret.arg)) =>
        /\ ret.ok
        /\ Len(ret.val.rows) >= Len(ret.arg.rows)

\* ------------------------------------------------------------------
\* The cache over every operation

\* C26: whatever operations are called, the cached names are registered
\* table names; with caching disabled nothing is ever cached; an entry once
\* written stays: the same DataFrame object under the same name, with the
\* content it was written with.  So the cached names only grow.
C26_CacheInvariant ==
    /\ [](\A n \in DOMAIN cache :
            cache[n] # 0 => n \in DOMAIN BASE_TABLES /\ autocache)
    /\ [][\A n \in DOMAIN cache :
            cache[n] # 0 =>
                /\ cache'[n] = cache[n]
                /\ heap'[cache[n]] = heap[cache[n]]
                /\ heap[cache[n]] = firstLoad[n]]_vars

\* three names are cached; fixtures.csv was removed since and a caller
\* edited the table it was given
C26_Witness ==
    /\ autocache
    /\ cache["fixtures"] # 0 /\ cache["players"] # 0 /\ cache["teams"] # 0
    /\ disk["fixtures.csv"] = NoTable
    /\ \E sl \in Slots : held[sl] # NoHandle /\ held[sl].edited /\ held[sl].name = "players"
    /\ EnrichCall /\ ret.ok

\* caching disabled: tables were read and nothing is cached
C26_WitnessDisabled ==
    /\ ~autocache
    /\ ioCount["fixtures"] > 0 /\ ioCount["players"] > 0
    /\ \A n \in DOMAIN cache : cache[n] = 0

====
